---- MODULE Spec2Model ----
(***************************************************************************)
(* Mutation calling of amplicon reads in MAGIC-seq (src/src/ltr.py):        *)
(* the anchor locator _lineage_ngs_define, the read classifier              *)
(* _lineage_ngs_mutations, the per-site histogram of lineage_ngs_dict2csv,  *)
(* consensus_sequence, and the tables of lineage_ngs_np2sum and            *)
(* lineage_ngs_aggregate.                                                  *)
(*                                                                         *)
(* Sequences are TLA+ sequences of one-letter strings.  Python indexes     *)
(* from 0, TLA+ from 1: every index below is the Python one, and the       *)
(* operators PyAt, PySlice and PyFind do the shift.                        *)
(***************************************************************************)
EXTENDS Integers, Sequences, FiniteSets, TLC

VARIABLES
    pc,        \* position of the run
    seq_e,     \* reference sequence given to the locator and the classifier
    proto,     \* protospacer (guide)
    anchors,   \* result of _lineage_ngs_define
    edit,      \* how the candidate read was derived from the reference
    seq_i,     \* candidate read
    call,      \* result of _lineage_ngs_mutations
    keys,      \* target sites, in the order of dict_int.keys()
    dict_int,  \* per site, the intact reads
    dict_ind,  \* per site, the mutation-candidate reads
    mut_dict,  \* per site, the histogram of mutation calls
    seq_list,  \* sequences given to consensus_sequence
    seq_out,   \* result of consensus_sequence
    np_list,   \* per sample, the table loaded from its csv file
    np_sum,    \* per sample, the table saved by lineage_ngs_np2sum
    summary_np, \* result of lineage_ngs_aggregate
    tar_list,  \* table loaded by lineage_ngs_mutdist
    np_out     \* result of lineage_ngs_mutdist

callvars == <<seq_e, anchors, edit, seq_i, call>>

histvars == <<keys, dict_int, dict_ind, mut_dict>>

consvars == <<seq_list, seq_out>>

tabvars == <<np_list, np_sum, summary_np, tar_list, np_out>>

vars == <<pc, proto, callvars, histvars, consvars, tabvars>>

\* nothing given to consensus_sequence, nothing returned
NoConsensus == seq_list = <<>> /\ seq_out = <<>>

\* no table loaded, none saved
NoTables ==
    /\ np_list = <<>> /\ np_sum = <<>> /\ summary_np = <<>>
    /\ tar_list = <<>> /\ np_out = <<>>

(***************************************************************************)
(* Python string primitives                                                *)
(***************************************************************************)
Bases == {"A", "C", "G", "T"}

Rep(b, n) == [k \in 1..n |-> b]

Max2(a, b) == IF a >= b THEN a ELSE b

Min2(a, b) == IF a <= b THEN a ELSE b

\* s[i] is defined for -len(s) <= i < len(s); anything else is an IndexError
PyIndexOK(s, i) == -Len(s) <= i /\ i < Len(s)

PyAt(s, i) == IF i >= 0 THEN s[i + 1] ELSE s[Len(s) + i + 1]

\* a slice bound: negative counts from the end, then clamped to 0..len(s)
PyBound(s, i) == IF i < 0 THEN Max2(0, Len(s) + i) ELSE Min2(i, Len(s))

\* s[a:b]
PySlice(s, a, b) == SubSeq(s, PyBound(s, a) + 1, PyBound(s, b))

MatchAt(s, sub, i) == \A k \in 1..Len(sub) : s[i + k] = sub[k]

\* the indices at which sub occurs in s
Occurrences(s, sub) == {i \in 0..(Len(s) - Len(sub)) : MatchAt(s, sub, i)}

\* the lowest index of S, -1 when there is none
Lowest(S) == IF S = {} THEN -1 ELSE CHOOSE x \in S : \A y \in S : x <= y

\* s.find(sub): index of the first occurrence, -1 when there is none
PyFind(s, sub) == Lowest(Occurrences(s, sub))

Digits == <<"0", "1", "2", "3", "4", "5", "6", "7", "8", "9">>

RECURSIVE NatToStr(_)
NatToStr(n) ==
    IF n < 10 THEN <<Digits[n + 1]>>
    ELSE NatToStr(n \div 10) \o <<Digits[(n % 10) + 1]>>

\* "%i" % n
IntToStr(n) == IF n < 0 THEN <<"-">> \o NatToStr(-n) ELSE NatToStr(n)

Complement(b) ==
    CASE b = "A" -> "T"
      [] b = "T" -> "A"
      [] b = "C" -> "G"
      [] b = "G" -> "C"
      [] OTHER -> b

\* chipseq.get_reverse_complement
get_reverse_complement(s) ==
    [k \in 1..Len(s) |-> Complement(s[Len(s) + 1 - k])]

(***************************************************************************)
(* _lineage_ngs_define                                                     *)
(***************************************************************************)
FwdCut == 16

RcCut == 3

LtFar == 40

LtNear == 19

RtNear == 20

RtFar == 41

\* the all-None result
NotFound ==
    [found |-> FALSE, lt_seq |-> <<>>, rt_seq |-> <<>>, lt_len |-> 0,
     rt_len |-> 0, rc |-> FALSE, cut |-> 0, lt1 |-> 0, lt2 |-> 0,
     rt1 |-> 0, rt2 |-> 0]

\* CutSite with the two offsets exchanged
CutSiteSwapped(seq, prt) ==
    LET proto_ind == PyFind(seq, prt)
        proto_ind_rc == PyFind(seq, get_reverse_complement(prt))
    IN  IF proto_ind /= -1 /\ proto_ind_rc = -1
        THEN [cut |-> proto_ind + RcCut, rc |-> FALSE]
        ELSE [cut |-> proto_ind_rc + FwdCut, rc |-> TRUE]

\* proto_ind after line 441 or 444, and the orientation flag
CutSite(seq, prt) ==
    LET proto_ind == PyFind(seq, prt)
        proto_ind_rc == PyFind(seq, get_reverse_complement(prt))
    IN  IF proto_ind /= -1 /\ proto_ind_rc = -1
        THEN [cut |-> proto_ind + FwdCut, rc |-> FALSE]
        ELSE [cut |-> proto_ind_rc + RcCut, rc |-> TRUE]

\* _lineage_ngs_define without the max(0, .) clamp of lt1 and lt2
DefineUnclamped(seq, prt) ==
    LET proto_ind == PyFind(seq, prt)
        proto_ind_rc == PyFind(seq, get_reverse_complement(prt))
    IN  IF proto_ind /= -1 \/ proto_ind_rc /= -1
        THEN LET cs == CutSite(seq, prt)
                 lt1 == cs.cut - LtFar
                 lt2 == cs.cut - LtNear
                 rt1 == Min2(Len(seq), cs.cut + RtNear)
                 rt2 == Min2(Len(seq), cs.cut + RtFar)
             IN  [found |-> TRUE,
                  lt_seq |-> PySlice(seq, lt1, lt2),
                  rt_seq |-> PySlice(seq, rt1, rt2),
                  lt_len |-> cs.cut - lt1,
                  rt_len |-> rt1 - cs.cut,
                  rc |-> cs.rc,
                  cut |-> cs.cut, lt1 |-> lt1, lt2 |-> lt2,
                  rt1 |-> rt1, rt2 |-> rt2]
        ELSE NotFound

\* The record holds the five returned values (lt_seq, rt_seq, lt_len,
\* rt_len, rc) and, for the properties, the locals cut (proto_ind after the
\* shift), lt1, lt2, rt1, rt2.
_lineage_ngs_define(seq, prt) ==
    LET proto_ind == PyFind(seq, prt)
        proto_ind_rc == PyFind(seq, get_reverse_complement(prt))
    IN  IF proto_ind /= -1 \/ proto_ind_rc /= -1
        THEN LET cs == CutSite(seq, prt)
                 lt1 == Max2(0, cs.cut - LtFar)
                 lt2 == Max2(0, cs.cut - LtNear)
                 rt1 == Min2(Len(seq), cs.cut + RtNear)
                 rt2 == Min2(Len(seq), cs.cut + RtFar)
             IN  [found |-> TRUE,
                  lt_seq |-> PySlice(seq, lt1, lt2),
                  rt_seq |-> PySlice(seq, rt1, rt2),
                  lt_len |-> cs.cut - lt1,
                  rt_len |-> rt1 - cs.cut,
                  rc |-> cs.rc,
                  cut |-> cs.cut, lt1 |-> lt1, lt2 |-> lt2,
                  rt1 |-> rt1, rt2 |-> rt2]
        ELSE NotFound

(***************************************************************************)
(* _lineage_ngs_mutations                                                  *)
(***************************************************************************)
Dash == <<"-">>

SetMin(S) == CHOOSE x \in S : \A y \in S : x <= y

\* "mut_%s_%s_%s_%s" % (intact, snv, insertion, deletion)
MutString(intact, snv, insertion, deletion) ==
    <<"m", "u", "t", "_">> \o intact \o <<"_">> \o snv \o <<"_">>
        \o insertion \o <<"_">> \o deletion

\* (None, None), and the shape of every result: raised is an exception
\* leaving the function, null is mut_string = cropped_i = None
NullCall ==
    [raised |-> FALSE, null |-> TRUE, intact |-> Dash, snv |-> Dash,
     insertion |-> Dash, deletion |-> Dash, mut_string |-> <<>>,
     cropped |-> <<>>, lt_e |-> -1, rt_e |-> -1, lt_i |-> -1, rt_i |-> -1,
     delet |-> <<>>, lt_del |-> 0, rt_del |-> 0]

Raised == [NullCall EXCEPT !.raised = TRUE]

\* RcIf that never reverse-complements
RcNever(rc, s) == s

RcIf(rc, s) == IF rc THEN get_reverse_complement(s) ELSE s

\* lines 484-490: iterate from L to R, stop at the first mismatch.
\* cropped_e[ct] past the end of cropped_e is an IndexError.
LtScan(cropped_e, cropped_i) ==
    LET stop == {ct \in 0..(Len(cropped_i) - 1) :
                    ct >= Len(cropped_e) \/ cropped_i[ct + 1] /= cropped_e[ct + 1]}
    IN  IF stop = {} THEN [raised |-> FALSE, lt_del |-> Len(cropped_e) - 1]
        ELSE IF SetMin(stop) >= Len(cropped_e) THEN [raised |-> TRUE, lt_del |-> 0]
        ELSE [raised |-> FALSE, lt_del |-> SetMin(stop)]

\* lines 484, 491-497: iterate from R to L, stop at the first mismatch
RtScan(cropped_e, cropped_i) ==
    LET stop == {d \in 1..Min2(Len(cropped_e), Len(cropped_i)) :
                    cropped_i[Len(cropped_i) - d + 1] /= cropped_e[Len(cropped_e) - d + 1]}
    IN  IF stop = {} THEN 0 ELSE Len(cropped_e) - SetMin(stop)

\* Collapse that leaves the right boundary where the scan put it
CollapseNever(lt_del, rt_del) == rt_del

\* lines 498-499: the corner case
Collapse(lt_del, rt_del) == IF lt_del > rt_del THEN lt_del ELSE rt_del

\* Cropped ending before the right anchor
CroppedExclusive(seq, lt, lt_seq, rt) == PySlice(seq, lt + Len(lt_seq), rt)

\* line 478
Cropped(seq, lt, lt_seq, rt) == PySlice(seq, lt + Len(lt_seq), rt + 1)

\* lines 482-503, the DELETION branch
DeletionCall(base, se, a) ==
    LET cropped_e == Cropped(se, base.lt_e, a.lt_seq, base.rt_e)
        lsc == LtScan(cropped_e, base.cropped)
        lt_del == lsc.lt_del
        rt_del == Collapse(lt_del, RtScan(cropped_e, base.cropped))
        cut_i == a.lt_len - Len(a.lt_seq)
        delet == PySlice(cropped_e, lt_del, rt_del + 1)
        deletion == RcIf(a.rc, delet) \o <<"*">> \o IntToStr(cut_i - lt_del)
                        \o <<"*">> \o IntToStr(rt_del + 1 - cut_i)
    IN  IF lsc.raised THEN Raised
        ELSE [base EXCEPT !.deletion = deletion, !.delet = delet,
                          !.lt_del = lt_del, !.rt_del = rt_del,
                          !.mut_string = MutString(Dash, Dash, Dash, deletion)]

\* InsertionCall that forgets to step back by rt_len
InsertionToAnchor(base, si, a) ==
    LET insertion == RcIf(a.rc, PySlice(si, base.lt_i + a.lt_len, base.rt_i))
    IN  [base EXCEPT !.insertion = insertion,
                     !.mut_string = MutString(Dash, Dash, insertion, Dash)]

\* line 480-481, the INSERTION branch
InsertionCall(base, si, a) ==
    LET insertion == RcIf(a.rc, PySlice(si, base.lt_i + a.lt_len, base.rt_i - a.rt_len))
    IN  [base EXCEPT !.insertion = insertion,
                     !.mut_string = MutString(Dash, Dash, insertion, Dash)]

\* BaseCall reading the reference one base too far
BaseCallShifted(base, se, si, a) ==
    IF ~PyIndexOK(si, base.lt_i + a.lt_len) \/ ~PyIndexOK(se, base.lt_e + a.lt_len + 1)
    THEN Raised
    ELSE LET b == RcIf(a.rc, <<PyAt(si, base.lt_i + a.lt_len)>>)
         IN  IF PyAt(si, base.lt_i + a.lt_len) = PyAt(se, base.lt_e + a.lt_len + 1)
             THEN [base EXCEPT !.intact = b,
                               !.mut_string = MutString(b, Dash, Dash, Dash)]
             ELSE [base EXCEPT !.snv = b,
                               !.mut_string = MutString(Dash, b, Dash, Dash)]

\* lines 504-510, the INTACT / SNV branch
BaseCall(base, se, si, a) ==
    IF ~PyIndexOK(si, base.lt_i + a.lt_len) \/ ~PyIndexOK(se, base.lt_e + a.lt_len)
    THEN Raised
    ELSE LET b == RcIf(a.rc, <<PyAt(si, base.lt_i + a.lt_len)>>)
         IN  IF PyAt(si, base.lt_i + a.lt_len) = PyAt(se, base.lt_e + a.lt_len)
             THEN [base EXCEPT !.intact = b,
                               !.mut_string = MutString(b, Dash, Dash, Dash)]
             ELSE [base EXCEPT !.snv = b,
                               !.mut_string = MutString(Dash, b, Dash, Dash)]

\* _lineage_ngs_mutations taking equal anchor distances for an insertion
MutationsGreaterOrEqual(se, si, a) ==
    IF ~a.found THEN Raised
    ELSE
    LET lt_e == PyFind(se, a.lt_seq)
        rt_e == PyFind(se, a.rt_seq)
        len_e == rt_e - lt_e
        lt_i == PyFind(si, a.lt_seq)
        rt_i == PyFind(si, a.rt_seq)
        len_i == rt_i - lt_i
        base == [NullCall EXCEPT !.null = FALSE, !.lt_e = lt_e, !.rt_e = rt_e,
                                 !.lt_i = lt_i, !.rt_i = rt_i,
                                 !.cropped = Cropped(si, lt_i, a.lt_seq, rt_i)]
    IN  IF lt_i /= -1 /\ rt_i /= -1
        THEN IF len_i >= len_e THEN InsertionCall(base, si, a)
             ELSE DeletionCall(base, se, a)
        ELSE [NullCall EXCEPT !.lt_e = lt_e, !.rt_e = rt_e,
                              !.lt_i = lt_i, !.rt_i = rt_i]

\* a holds lt_seq, rt_seq, lt_len, rt_len, rc as _lineage_ngs_define
\* returned them; with the all-None result, str.find(None) raises.
_lineage_ngs_mutations(se, si, a) ==
    IF ~a.found THEN Raised
    ELSE
    LET lt_e == PyFind(se, a.lt_seq)
        rt_e == PyFind(se, a.rt_seq)
        len_e == rt_e - lt_e
        lt_i == PyFind(si, a.lt_seq)
        rt_i == PyFind(si, a.rt_seq)
        len_i == rt_i - lt_i
        base == [NullCall EXCEPT !.null = FALSE, !.lt_e = lt_e, !.rt_e = rt_e,
                                 !.lt_i = lt_i, !.rt_i = rt_i,
                                 !.cropped = Cropped(si, lt_i, a.lt_seq, rt_i)]
    IN  IF lt_i /= -1 /\ rt_i /= -1
        THEN IF len_i > len_e THEN InsertionCall(base, si, a)
             ELSE IF len_e > len_i THEN DeletionCall(base, se, a)
             ELSE BaseCall(base, se, si, a)
        ELSE [NullCall EXCEPT !.lt_e = lt_e, !.rt_e = rt_e,
                              !.lt_i = lt_i, !.rt_i = rt_i]

(***************************************************************************)
(* Inputs: references assembled as <left flank><guide><right flank>, and   *)
(* candidate reads derived from a reference by one edit                    *)
(***************************************************************************)
\* protospacer of the worked example
Guide ==
    << "C", "C", "A", "G", "G", "C", "T", "G", "G", "A",
       "G", "T", "G", "C", "A", "G", "T", "G", "C", "T" >>

\* non-repetitive flanking sequence, read up to the guide
GenericL ==
    <<
      "G", "C", "T", "A", "A", "A", "G", "A", "C", "A",
      "A", "T", "T", "A", "C", "A", "T", "A", "A", "C",
      "A", "T", "A", "C", "A", "C", "G", "T", "C", "A",
      "G", "C", "A", "C", "G", "A", "A", "A", "C", "T",
      "T", "G", "T", "T", "G", "G", "C", "C", "C", "A" >>

\* non-repetitive flanking sequence, read from the guide on
GenericR ==
    <<
      "C", "T", "G", "T", "G", "T", "C", "C", "A", "C",
      "C", "C", "C", "A", "T", "C", "G", "G", "A", "C",
      "T", "G", "G", "C", "A", "T", "T", "T", "T", "T",
      "A", "T", "T", "A", "C", "A", "C", "T", "C", "A",
      "G", "A", "A", "A", "C", "A", "G", "A", "A", "C" >>

\* length of the long flanks: no clamping in _lineage_ngs_define
LongFlank == 45

\* longest inserted / deleted run of a candidate
MaxIns == 2

MaxDel == 2

FlankKinds == {"homo", "generic"}

\* a right flank may also end in GCGC, which the guide's ...GTGC... turns
\* into when its 17th base T is read as C
RightKinds == FlankKinds \cup {"echo"}

\* the short flanks are those of the worked example: 20 bases
FlankLens == {20, LongFlank}

FlankL(kind, n) ==
    IF kind = "homo" THEN Rep("A", n)
    ELSE SubSeq(GenericL, Len(GenericL) - n + 1, Len(GenericL))

FlankR(kind, n) ==
    CASE kind = "homo" -> Rep("G", n)
      [] kind = "echo" -> SubSeq(GenericR, 1, n - 4) \o <<"G", "C", "G", "C">>
      [] OTHER -> SubSeq(GenericR, 1, n)

Assemble(l, g, r) == l \o g \o r

\* 20 A + guide + 20 G
ExampleRef == Assemble(Rep("A", 20), Guide, Rep("G", 20))

Refs ==
    {Assemble(FlankL(kl, nl), g, FlankR(kr, nr)) :
        kl \in FlankKinds, nl \in FlankLens, kr \in RightKinds, nr \in FlankLens,
        g \in {Guide, get_reverse_complement(Guide)}}

NoEdit == [kind |-> "none", pos |-> 0, str |-> <<>>]

\* index in the reference of the first base of the guide (or of its
\* reverse complement)
GuideStart(ref) ==
    Max2(PyFind(ref, Guide), PyFind(ref, get_reverse_complement(Guide)))

\* indexes of the guide's 4th, 10th and 17th base: the 4th is the cut site
\* of a reverse-complement match, the 17th that of a forward match
GuideBases(ref) == {GuideStart(ref) + 3, GuideStart(ref) + 9, GuideStart(ref) + 16}

\* the edits that turn reference ref, with anchors a, into a candidate:
\* none, one substituted base (in an anchor or in the guide), a run
\* inserted between the anchors, a run removed between the anchors
Edits(ref, a) ==
    {[kind |-> "self", pos |-> 0, str |-> <<>>]}
    \cup {[kind |-> "sub", pos |-> x[1], str |-> <<x[2]>>] :
            x \in {y \in ({a.lt1 + 1, a.rt1 + 1} \cup GuideBases(ref)) \X Bases :
                      y[2] /= PyAt(ref, y[1])}}
    \cup {[kind |-> "ins", pos |-> p, str |-> Rep(b, n)] :
            p \in a.lt2..a.rt1, b \in Bases, n \in 1..MaxIns}
    \cup {[kind |-> "del", pos |-> x[1], str |-> PySlice(ref, x[1], x[1] + x[2])] :
            x \in {y \in (a.lt2..a.rt1) \X (1..MaxDel) : y[1] + y[2] <= a.rt1}}

ApplyEdit(ref, e) ==
    CASE e.kind = "sub" ->
            PySlice(ref, 0, e.pos) \o e.str \o PySlice(ref, e.pos + 1, Len(ref))
      [] e.kind = "ins" ->
            PySlice(ref, 0, e.pos) \o e.str \o PySlice(ref, e.pos, Len(ref))
      [] e.kind = "del" ->
            PySlice(ref, 0, e.pos) \o PySlice(ref, e.pos + Len(e.str), Len(ref))
      [] OTHER -> ref

(***************************************************************************)
(* The locator and the classifier applied to the inputs                    *)
(***************************************************************************)
Init ==
    /\ pc = "start"
    /\ seq_e \in Refs
    /\ proto = Guide
    /\ anchors = NotFound
    /\ edit = NoEdit
    /\ seq_i = <<>>
    /\ call = NullCall
    /\ NoConsensus
    /\ NoTables
    /\ keys = <<>>
    /\ dict_int = <<>>
    /\ dict_ind = <<>>
    /\ mut_dict = <<>>

\* lt_seq, rt_seq, lt_len, rt_len, rc = _lineage_ngs_define(seq_c, proto)
Define ==
    /\ pc = "start"
    /\ anchors' = _lineage_ngs_define(seq_e, proto)
    /\ pc' = "defined"
    /\ UNCHANGED <<seq_e, proto, edit, seq_i, call, histvars, consvars, tabvars>>

\* mut, cro = _lineage_ngs_mutations(seq_c, seq, lt_seq, rt_seq, lt_len, rt_len, rc)
Mutations ==
    /\ pc = "defined"
    /\ \E e \in Edits(seq_e, anchors) :
          /\ edit' = e
          /\ seq_i' = ApplyEdit(seq_e, e)
          /\ call' = _lineage_ngs_mutations(seq_e, ApplyEdit(seq_e, e), anchors)
    /\ pc' = "called"
    /\ UNCHANGED <<seq_e, proto, anchors, histvars, consvars, tabvars>>

Next == Define \/ Mutations

Spec == Init /\ [][Next]_vars

(***************************************************************************)
(* The locator on references that hold the guide forward, as its reverse   *)
(* complement, both ways, or not at all                                    *)
(***************************************************************************)
\* bases between two guide matches, or in place of the guide
Spacer == SubSeq(GenericR, 1, 10)

Cores ==
    { Guide,
      get_reverse_complement(Guide),
      Guide \o Spacer \o get_reverse_complement(Guide),
      get_reverse_complement(Guide) \o Spacer \o Guide,
      Spacer }

OrientRefs ==
    {Assemble(FlankL("generic", nl), core, FlankR("generic", nr)) :
        nl \in FlankLens, nr \in FlankLens, core \in Cores}

InitOrient ==
    /\ pc = "start"
    /\ seq_e \in OrientRefs
    /\ proto = Guide
    /\ anchors = NotFound
    /\ edit = NoEdit
    /\ seq_i = <<>>
    /\ call = NullCall
    /\ NoConsensus
    /\ NoTables
    /\ keys = <<>>
    /\ dict_int = <<>>
    /\ dict_ind = <<>>
    /\ mut_dict = <<>>

SpecOrient == InitOrient /\ [][Next]_vars

(***************************************************************************)
(* The classifier on references with the anchors in order, and on          *)
(* references that hold a copy of the right anchor upstream of the left    *)
(* anchor (a repeat), as a genomic sequence may                            *)
(***************************************************************************)
\* the right anchor of a reference, then the reference
RepeatRefs == {_lineage_ngs_define(ref, Guide).rt_seq \o ref : ref \in Refs}

\* a run inserted just before the left anchor, or nothing
UpstreamEdits(ref, a) ==
    {[kind |-> "up", pos |-> a.lt1, str |-> Rep(b, n)] : b \in Bases, n \in 0..MaxIns}

InitRepeat ==
    /\ pc = "start"
    /\ seq_e \in Refs \cup RepeatRefs
    /\ proto = Guide
    /\ anchors = NotFound
    /\ edit = NoEdit
    /\ seq_i = <<>>
    /\ call = NullCall
    /\ NoConsensus
    /\ NoTables
    /\ keys = <<>>
    /\ dict_int = <<>>
    /\ dict_ind = <<>>
    /\ mut_dict = <<>>

\* mut, cro = _lineage_ngs_mutations(seq_c, seq, lt_seq, rt_seq, lt_len, rt_len, rc)
\* on a read that differs from the reference upstream of the left anchor
MutationsUpstream ==
    /\ pc = "defined"
    /\ \E e \in UpstreamEdits(seq_e, anchors) :
          LET si == PySlice(seq_e, 0, e.pos) \o e.str \o PySlice(seq_e, e.pos, Len(seq_e))
          IN  /\ edit' = e
              /\ seq_i' = si
              /\ call' = _lineage_ngs_mutations(seq_e, si, anchors)
    /\ pc' = "called"
    /\ UNCHANGED <<seq_e, proto, anchors, histvars, consvars, tabvars>>

NextRepeat == Define \/ Mutations \/ MutationsUpstream

SpecRepeat == InitRepeat /\ [][NextRepeat]_vars

(***************************************************************************)
(* consensus_sequence                                                      *)
(***************************************************************************)
Range(f) == {f[x] : x \in DOMAIN f}

\* scipy.stats.mode over a non-empty list: the most common value, the
\* smallest one on a tie
Mode(xs) ==
    LET cnt(v) == Cardinality({j \in DOMAIN xs : xs[j] = v})
    IN  CHOOSE v \in Range(xs) :
            \A w \in Range(xs) : cnt(v) > cnt(w) \/ (cnt(v) = cnt(w) /\ v <= w)

\* rows 0..3 of seq_cnt
BaseOrder == <<"A", "C", "G", "T">>

\* the last row holding the maximum
ArgMaxLast(cnt) ==
    CHOOSE k \in DOMAIN cnt :
        \A m \in DOMAIN cnt : cnt[k] > cnt[m] \/ (cnt[k] = cnt[m] /\ k >= m)

\* np.argmax over the four rows: the first row holding the maximum
ArgMax(cnt) ==
    CHOOSE k \in DOMAIN cnt :
        \A m \in DOMAIN cnt : cnt[k] > cnt[m] \/ (cnt[k] = cnt[m] /\ k <= m)

\* consensus_sequence with the loop over the positions one short
ConsensusShort(seqs) ==
    LET lens == Mode([j \in DOMAIN seqs |-> Len(seqs[j])])
        seq_cnt(i) ==
            [k \in 1..4 |->
                Cardinality({j \in DOMAIN seqs :
                    Len(seqs[j]) = lens /\ seqs[j][i] = BaseOrder[k]})]
    IN  [i \in 1..(lens - 1) |-> BaseOrder[ArgMax(seq_cnt(i))]]

\* for a non-empty list of sequences
consensus_sequence(seqs) ==
    LET lens == Mode([j \in DOMAIN seqs |-> Len(seqs[j])])
        seq_cnt(i) ==
            [k \in 1..4 |->
                Cardinality({j \in DOMAIN seqs :
                    Len(seqs[j]) = lens /\ seqs[j][i] = BaseOrder[k]})]
    IN  [i \in 1..lens |-> BaseOrder[ArgMax(seq_cnt(i))]]

\* stats.mode([])[0][0]: index 0 of an empty array
IndexError == <<"IndexError">>

\* longest sequence and most sequences given to consensus_sequence
MaxSeqLen == 2

MaxSeqs == 3

\* a read may hold an ambiguous base
Symbols == Bases \cup {"N"}

InputSeqs == UNION {[1..n -> Symbols] : n \in 1..MaxSeqLen}

InitCons ==
    /\ pc = "given"
    /\ seq_list \in UNION {[1..k -> InputSeqs] : k \in 0..MaxSeqs}
    /\ seq_out = <<>>
    /\ proto = Guide
    /\ seq_e = <<>>
    /\ anchors = NotFound
    /\ edit = NoEdit
    /\ seq_i = <<>>
    /\ call = NullCall
    /\ keys = <<>>
    /\ dict_int = <<>>
    /\ dict_ind = <<>>
    /\ mut_dict = <<>>
    /\ NoTables

\* seq_c = consensus_sequence(seq_list)
Consensus ==
    /\ pc = "given"
    /\ seq_out' = IF seq_list = <<>> THEN IndexError ELSE consensus_sequence(seq_list)
    /\ pc' = IF seq_list = <<>> THEN "failed" ELSE "returned"
    /\ UNCHANGED <<proto, callvars, histvars, seq_list, tabvars>>

NextCons == Consensus

SpecCons == InitCons /\ [][NextCons]_vars

(***************************************************************************)
(* lineage_ngs_dict2csv                                                    *)
(***************************************************************************)
\* PickRef that tests only whether the left anchor is there
PickRefAnchorOnly(seq_c, a, seq_g, prt) ==
    IF ~a.found \/ a.lt_seq = <<>>
    THEN [seq_c |-> seq_g, a |-> _lineage_ngs_define(seq_g, prt)]
    ELSE [seq_c |-> seq_c, a |-> a]

\* lines 407-410: keep the consensus and its anchors a, or fall back on the
\* genomic sequence of the key
PickRef(seq_c, a, seq_g, prt) ==
    IF (~a.found \/ a.lt_seq = <<>>)
       \/ PyFind(seq_c, a.rt_seq) - PyFind(seq_c, a.lt_seq) <= 0
    THEN [seq_c |-> seq_g, a |-> _lineage_ngs_define(seq_g, prt)]
    ELSE [seq_c |-> seq_c, a |-> a]

\* lines 405-410, from the consensus on
RefOfConsensus(seq_c, seq_g, prt) ==
    PickRef(seq_c, _lineage_ngs_define(seq_c, prt), seq_g, prt)

\* lines 404-410: the reference of a site and its anchors
SiteRef(ints, seq_g, prt) ==
    RefOfConsensus(consensus_sequence(ints), seq_g, prt)

\* every call kept, whatever its cropped region
ValidAlways(c) == TRUE

\* if cro_j: the cropped region is neither None nor empty
Valid(c) == ~c.null /\ c.cropped /= <<>>

\* lines 412-420: the calls of the mutated reads, then of the intact reads,
\* against reference r.seq_c with anchors r.a
CallsAgainst(r, ints, inds) ==
    [j \in 1..(Len(inds) + Len(ints)) |->
        _lineage_ngs_mutations(r.seq_c,
            IF j <= Len(inds) THEN inds[j] ELSE ints[j - Len(inds)], r.a)]

SiteCalls(ints, inds, seq_g, prt) ==
    CallsAgainst(SiteRef(ints, seq_g, prt), ints, inds)

\* the strings of the calls kept
Strings(keep) == [j \in DOMAIN keep |-> keep[j].mut_string]

\* mut_list: the strings of the valid calls
MutList(calls) == Strings(SelectSeq(calls, Valid))

\* line 421: [[x, mut_list.count(x)] for x in set(mut_list)]; the order of
\* the list is that of a Python set, the histogram is kept as a set
Histogram(mut_list) ==
    {<<x, Cardinality({j \in DOMAIN mut_list : mut_list[j] = x})>> :
        x \in Range(mut_list)}

\* lines 411-421: an exception in a call leaves the function
ResultOf(calls) ==
    IF \E j \in DOMAIN calls : calls[j].raised
    THEN [raised |-> TRUE, hist |-> {}]
    ELSE [raised |-> FALSE, hist |-> Histogram(MutList(calls))]

\* lines 397-421, one target site
SiteResult(ints, inds, seq_g, prt) ==
    IF Len(ints) = 0 \/ Len(inds) = 0 THEN [raised |-> FALSE, hist |-> {}]
    ELSE ResultOf(SiteCalls(ints, inds, seq_g, prt))

\* "%s_%s" % (chr_i, pos_i)
OutKey(k) == <<k.chr, k.pos>>

\* lines 396-421: the loop over the sites from site i on, r the result of
\* site i; an exception ends the function with the histograms gathered so
\* far and nothing saved
RECURSIVE SiteLoop(_, _, _, _, _, _)
LoopStep(r, i, ks, di, dd, prt, md) ==
    IF r.raised THEN [raised |-> TRUE, mut_dict |-> md]
    ELSE SiteLoop(i + 1, ks, di, dd, prt, (OutKey(ks[i]) :> r.hist) @@ md)

SiteLoop(i, ks, di, dd, prt, md) ==
    IF i > Len(ks) THEN [raised |-> FALSE, mut_dict |-> md]
    ELSE LoopStep(SiteResult(di[i], dd[i], ks[i].seq, prt), i, ks, di, dd, prt, md)

(***************************************************************************)
(* Inputs: one target site whose genomic sequence holds the guide between  *)
(* long non-repetitive flanks, and reads derived from it                   *)
(***************************************************************************)
\* most reads of a read set
MaxReads == 3

Genomic == Assemble(FlankL("generic", LongFlank), Guide, FlankR("generic", LongFlank))

GenomicAnchors == _lineage_ngs_define(Genomic, Guide)

Substitute(ref, p, b) == ApplyEdit(ref, [kind |-> "sub", pos |-> p, str |-> <<b>>])

\* the reads of the site: the genomic sequence; C instead of T at the cut
\* site; a base changed inside the left anchor; a base inserted at the cut
\* site; two bases removed at the cut site
Pool ==
    << Genomic,
       Substitute(Genomic, GenomicAnchors.cut, "C"),
       Substitute(Genomic, GenomicAnchors.lt1 + 1, "G"),
       ApplyEdit(Genomic, [kind |-> "ins", pos |-> GenomicAnchors.cut, str |-> <<"A">>]),
       ApplyEdit(Genomic, [kind |-> "del", pos |-> GenomicAnchors.cut, str |-> <<"T", "G">>]) >>

\* read lists of up to n reads; the order of a list changes neither the
\* consensus nor the histogram, so one order stands for all
ReadLists(n) ==
    LET idx == UNION {[1..k -> DOMAIN Pool] : k \in 0..n}
        sorted == {f \in idx : \A j \in 1..(Len(f) - 1) : f[j] <= f[j + 1]}
    IN  {[j \in DOMAIN f |-> Pool[f[j]]] : f \in sorted}

SiteKey == [chr |-> "chr1", pos |-> "100", seq |-> Genomic]

InitHist ==
    /\ pc = "loaded"
    /\ proto = Guide
    /\ keys = <<SiteKey>>
    /\ dict_int \in [{1} -> ReadLists(MaxReads)]
    /\ dict_ind \in [{1} -> ReadLists(MaxReads)]
    /\ mut_dict = <<>>
    /\ seq_e = <<>>
    /\ anchors = NotFound
    /\ edit = NoEdit
    /\ seq_i = <<>>
    /\ call = NullCall
    /\ NoConsensus
    /\ NoTables

\* the function ends with result r
Finish(r) ==
    /\ mut_dict' = r.mut_dict
    /\ pc' = IF r.raised THEN "failed" ELSE "saved"

lineage_ngs_dict2csv ==
    /\ pc = "loaded"
    /\ Finish(SiteLoop(1, keys, dict_int, dict_ind, proto, <<>>))
    /\ UNCHANGED <<proto, callvars, keys, dict_int, dict_ind, consvars, tabvars>>

NextHist == lineage_ngs_dict2csv

SpecHist == InitHist /\ [][NextHist]_vars

(***************************************************************************)
(* lineage_ngs_dict2csv over two target sites, one of them with a genomic  *)
(* sequence that holds neither the guide nor its reverse complement        *)
(***************************************************************************)
\* most reads of a read set of one of several sites
MaxPerSite == 1

\* a genomic sequence without the guide
Blank == Assemble(FlankL("generic", LongFlank), Spacer, FlankR("generic", LongFlank))

\* the reads of the site without guide: its genomic sequence; a base changed
BlankPool == << Blank, Substitute(Blank, LongFlank, "G") >>

BlankKey == [chr |-> "chr2", pos |-> "200", seq |-> Blank]

\* read lists of up to n reads of pool, one order standing for all
ReadListsFrom(pool, n) ==
    LET idx == UNION {[1..k -> DOMAIN pool] : k \in 0..n}
        sorted == {f \in idx : \A j \in 1..(Len(f) - 1) : f[j] <= f[j + 1]}
    IN  {[j \in DOMAIN f |-> pool[f[j]]] : f \in sorted}

\* the reads a site given by its key may have
ReadsOf(k) ==
    IF k = BlankKey THEN ReadListsFrom(BlankPool, MaxPerSite)
    ELSE ReadListsFrom(Pool, MaxPerSite)

\* dict_int.keys() in insertion order
KeyLists == {<<SiteKey>>, <<BlankKey>>, <<SiteKey, BlankKey>>, <<BlankKey, SiteKey>>}

InitSites ==
    /\ pc = "loaded"
    /\ proto = Guide
    /\ keys \in KeyLists
    /\ dict_int \in UNION {[DOMAIN ks -> UNION {ReadsOf(ks[i]) : i \in DOMAIN ks}] : ks \in KeyLists}
    /\ dict_ind \in UNION {[DOMAIN ks -> UNION {ReadsOf(ks[i]) : i \in DOMAIN ks}] : ks \in KeyLists}
    /\ DOMAIN dict_int = DOMAIN keys
    /\ DOMAIN dict_ind = DOMAIN keys
    /\ \A i \in DOMAIN keys : dict_int[i] \in ReadsOf(keys[i]) /\ dict_ind[i] \in ReadsOf(keys[i])
    /\ mut_dict = <<>>
    /\ seq_e = <<>>
    /\ anchors = NotFound
    /\ edit = NoEdit
    /\ seq_i = <<>>
    /\ call = NullCall
    /\ NoConsensus
    /\ NoTables

SpecSites == InitSites /\ [][NextHist]_vars

(***************************************************************************)
(* lineage_ngs_dict2csv over one site with reads that make the consensus   *)
(* a valid reference, or not                                               *)
(***************************************************************************)
\* most reads of a read set
MaxRefReads == 2

\* a read that holds the right anchor of the genomic sequence a second
\* time, before the left anchor
RightFirst == GenomicAnchors.rt_seq \o Genomic

RefPool == Pool \o <<RightFirst>>

InitRef ==
    /\ pc = "loaded"
    /\ proto = Guide
    /\ keys = <<SiteKey>>
    /\ dict_int \in [{1} -> ReadListsFrom(RefPool, MaxRefReads)]
    /\ dict_ind \in [{1} -> ReadListsFrom(RefPool, MaxRefReads)]
    /\ mut_dict = <<>>
    /\ seq_e = <<>>
    /\ anchors = NotFound
    /\ edit = NoEdit
    /\ seq_i = <<>>
    /\ call = NullCall
    /\ NoConsensus
    /\ NoTables

SpecRef == InitRef /\ [][NextHist]_vars

(***************************************************************************)
(* Tables: _lineage_ngs_dict2np, and the csv files as loaded.  A table is  *)
(* a sequence of rows of cells; a cell is a string, '' for an empty one.   *)
(* Row 1 holds the site keys, columns 2c-1 and 2c the strings and counts   *)
(* of site c (Python: row 0, columns 2c and 2c+1 for c from 0).            *)
(***************************************************************************)
\* the site keys and the mutation-call strings of the tables, each in the
\* order Python gives to strings
SiteOrder == <<"chr1_100", "chr2_200">>

MutOrder == <<"mut_-_C_-_-", "mut_T_-_-_-">>

StrRank(x) ==
    CHOOSE k \in 1..(Len(SiteOrder) + Len(MutOrder)) :
        (SiteOrder \o MutOrder)[k] = x

\* highest count of a histogram entry
MaxCount == 2

\* "%s" of a count, as np.savetxt writes it
CountStr(n) == Digits[n + 1]

\* int(x) of a cell
PyInt(x) == (CHOOSE k \in DOMAIN Digits : Digits[k] = x) - 1

\* the greatest of a set of naturals, 0 for none: max([...])
SetMax(S) == IF S = {} THEN 0 ELSE CHOOSE x \in S : \A y \in S : y <= x

\* entries ordered by their counts first
BeforeByCount(e, f) ==
    \/ e[2] > f[2]
    \/ e[2] = f[2] /\ StrRank(e[1]) >= StrRank(f[1])

\* entry e comes before entry f in mut_list.sort(reverse=True)
Before(e, f) ==
    \/ StrRank(e[1]) > StrRank(f[1])
    \/ e[1] = f[1] /\ e[2] >= f[2]

\* the list of the entries of set S after mut_list.sort(reverse=True)
SortedReverse(S) ==
    CHOOSE l \in [1..Cardinality(S) -> S] :
        /\ \A e \in S : \E r \in DOMAIN l : l[r] = e
        /\ \A r \in DOMAIN l : \A q \in DOMAIN l : r < q => Before(l[r], l[q])

\* dictkeys after dictkeys.sort()
SortedKeys(K) ==
    CHOOSE l \in [1..Cardinality(K) -> K] :
        /\ \A e \in K : \E r \in DOMAIN l : l[r] = e
        /\ \A r \in DOMAIN l : \A q \in DOMAIN l : r < q => StrRank(l[r]) < StrRank(l[q])

\* mut_dict: a function from site keys to sets of <<string, count>>; the
\* table has the keys in sorted order and under each key its entries in
\* reverse sorted order, as written by np.savetxt
_lineage_ngs_dict2np(md) ==
    LET dictkeys == SortedKeys(DOMAIN md)
        clen == Len(dictkeys)
        rlen == SetMax({Cardinality(md[k]) : k \in DOMAIN md})
        mut_list(c) == SortedReverse(md[dictkeys[c]])
        col(c) == (c + 1) \div 2
    IN  [r \in 1..(rlen + 1) |->
            [c \in 1..(clen * 2) |->
                IF r = 1 THEN (IF c % 2 = 1 THEN dictkeys[col(c)] ELSE "")
                ELSE IF r - 1 > Len(mut_list(col(c))) THEN ""
                ELSE IF c % 2 = 1 THEN mut_list(col(c))[r - 1][1]
                ELSE CountStr(mut_list(col(c))[r - 1][2])]]

(***************************************************************************)
(* lineage_ngs_np2sum.  Sites are numbered from 1: site j has its strings  *)
(* in column 2j-1 and its counts in column 2j.                             *)
(***************************************************************************)
\* np.shape[1]
NCols(t) == Len(t[1])

\* int(np_list[0].shape[1] / 2)
NTarget(np) == NCols(np[1]) \div 2

\* np_list[k][0, j_sta] and np_list[k][1:, j_sta] index a column that table
\* k must have
ColumnMissing(np) ==
    \E k \in DOMAIN np : \E j \in 1..NTarget(np) : 2 * j > NCols(np[k])

\* the strings of site j in table t, '' left out
OwnTypes(t, j) == {t[r][2 * j - 1] : r \in 2..Len(t)} \ {""}

\* mut_types of site j: the strings of column j of every table
MutTypes(np, j) == UNION {OwnTypes(np[k], j) : k \in DOMAIN np}

\* [[x[0], int(x[1])] for x in np_list[i_pts][1:, j_sta:j_end] if x[0] != '']
OwnEntries(t, j) ==
    {<<t[r][2 * j - 1], PyInt(t[r][2 * j])>> :
        r \in {q \in 2..Len(t) : t[q][2 * j - 1] /= ""}}

\* MergedEntries with the strings of the other tables left out
OwnEntriesOnly(np, i, j) == OwnEntries(np[i], j)

\* MergedEntries with the own counts set to 0 as well
MergedEntriesZeroed(np, i, j) ==
    {<<x, 0>> : x \in MutTypes(np, j)}

\* m_d[key_i] of site j for table i: its own entries, and every other
\* string of mut_types with count 0
MergedEntries(np, i, j) ==
    OwnEntries(np[i], j)
        \cup {<<x, 0>> : x \in MutTypes(np, j) \ OwnTypes(np[i], j)}

\* m_d for table i: under a key, the entries of the last site of table i
\* that has this key
MergedDict(np, i) ==
    LET keyOf(j) == np[i][1][2 * j - 1]
        last(k) == SetMax({j \in 1..NTarget(np) : keyOf(j) = k})
    IN  [k \in {keyOf(j) : j \in 1..NTarget(np)} |-> MergedEntries(np, i, last(k))]

(***************************************************************************)
(* Inputs: per sample, the table that lineage_ngs_dict2csv saved           *)
(***************************************************************************)
\* most samples
MaxSamples == 2

\* the histograms of a site: some strings, each with a count of 1 or more
Hists ==
    UNION {{ {<<x, f[x]>> : x \in S} : f \in [S -> 1..MaxCount] } :
              S \in SUBSET Range(MutOrder)}

\* the mut_dict of a sample: one site or more
SampleDicts == UNION {[K -> Hists] : K \in (SUBSET Range(SiteOrder)) \ {{}}}

SampleTables == {_lineage_ngs_dict2np(d) : d \in SampleDicts}

InitTabs ==
    /\ pc = "tables"
    /\ np_list \in UNION {[1..n -> SampleTables] : n \in 1..MaxSamples}
    /\ np_sum = <<>>
    /\ summary_np = <<>>
    /\ tar_list = <<>>
    /\ np_out = <<>>
    /\ proto = Guide
    /\ seq_e = <<>>
    /\ anchors = NotFound
    /\ edit = NoEdit
    /\ seq_i = <<>>
    /\ call = NullCall
    /\ keys = <<>>
    /\ dict_int = <<>>
    /\ dict_ind = <<>>
    /\ mut_dict = <<>>
    /\ NoConsensus

\* an IndexError is raised for the first table, before any file is saved
lineage_ngs_np2sum ==
    /\ pc = "tables"
    /\ np_sum' = IF ColumnMissing(np_list) THEN <<>>
                 ELSE [i \in DOMAIN np_list |->
                          _lineage_ngs_dict2np(MergedDict(np_list, i))]
    /\ pc' = IF ColumnMissing(np_list) THEN "failed" ELSE "summed"
    /\ UNCHANGED <<proto, callvars, histvars, consvars, np_list, summary_np, tar_list, np_out>>

(***************************************************************************)
(* lineage_ngs_aggregate over the tables saved by lineage_ngs_np2sum       *)
(***************************************************************************)
RECURSIVE SumSeq(_)
\* sum(val_i)
SumSeq(val) == IF val = <<>> THEN 0 ELSE Head(val) + SumSeq(Tail(val))

\* [int(x[1]) for x in np_list2[j_pts][1:, i:i + 2] if x[0] != '']
ValI(t, j) ==
    LET rows == SelectSeq([r \in 1..(Len(t) - 1) |-> r + 1],
                          LAMBDA r : t[r][2 * j - 1] /= "")
    IN  [k \in DOMAIN rows |-> PyInt(t[rows[k]][2 * j])]

\* a cell of entropy_np: a text, or an entropy; the entropy is the literal 0
\* or that of the distribution pk, whose quotients x/sum(val_i) are kept as
\* pairs <<x, sum(val_i)>>
TextCell(x) == [text |-> x, zero |-> FALSE, pk |-> <<>>]

\* ent_i without the test of the sum
EntIUnguarded(val) ==
    [text |-> "", zero |-> FALSE, pk |-> [k \in DOMAIN val |-> <<val[k], SumSeq(val)>>]]

\* stats.entropy([x/sum(val_i) for x in val_i], base=2) if sum(val_i) != 0 else 0
EntI(val) ==
    IF SumSeq(val) /= 0
    THEN [text |-> "", zero |-> FALSE, pk |-> [k \in DOMAIN val |-> <<val[k], SumSeq(val)>>]]
    ELSE [text |-> "", zero |-> TRUE, pk |-> <<>>]

\* a quotient of pk has the divisor 0: ZeroDivisionError
ZeroDivision(e) == \E k \in DOMAIN e.pk : e.pk[k][2] = 0

\* greatest k with a log2 looked for
MaxLog == 4

RECURSIVE Pow2(_)
Pow2(k) == IF k = 0 THEN 1 ELSE 2 * Pow2(k - 1)

\* the quotient x/t is 1/2^k for some k
Dyadic(p) == \E k \in 0..MaxLog : p[1] * Pow2(k) = p[2]

\* -log2(x/t) of such a quotient
NegLog2(p) == CHOOSE k \in 0..MaxLog : p[1] * Pow2(k) = p[2]

\* the sum of the numerators of pk
RECURSIVE SumNum(_)
SumNum(pk) == IF pk = <<>> THEN 0 ELSE Head(pk)[1] + SumNum(Tail(pk))

\* the sum over pk of x * -log2(x/s), the terms with x = 0 being 0
RECURSIVE SumBits(_, _)
SumBits(pk, s) ==
    IF pk = <<>> THEN 0
    ELSE (IF Head(pk)[1] = 0 THEN 0 ELSE Head(pk)[1] * NegLog2(<<Head(pk)[1], s>>))
         + SumBits(Tail(pk), s)

\* an entropy that -sum(p * log2(p)) gives without the rule for p = 0
EntropyNaive(pk) ==
    IF \E k \in DOMAIN pk : pk[k][1] = 0
    THEN [exact |-> FALSE, nan |-> TRUE, num |-> 0, den |-> 1]
    ELSE IF \A k \in DOMAIN pk : Dyadic(<<pk[k][1], SumNum(pk)>>)
    THEN [exact |-> TRUE, nan |-> FALSE, num |-> SumBits(pk, SumNum(pk)), den |-> SumNum(pk)]
    ELSE [exact |-> FALSE, nan |-> FALSE, num |-> 0, den |-> 1]

\* scipy.stats.entropy(pk, base=2) for quotients pk of one divisor: pk is
\* normalised to sum 1, a quotient of 0 adds 0, and the result is
\* sum(-p * log2(p)).  The value is num/den bits when every quotient is 0 or
\* 1/2^k, and is left open (exact false) otherwise.
stats_entropy(pk) ==
    IF \A k \in DOMAIN pk : pk[k][1] = 0 \/ Dyadic(<<pk[k][1], SumNum(pk)>>)
    THEN [exact |-> TRUE, nan |-> FALSE, num |-> SumBits(pk, SumNum(pk)), den |-> SumNum(pk)]
    ELSE [exact |-> FALSE, nan |-> FALSE, num |-> 0, den |-> 1]

\* the value of a cell of entropy_np that holds an entropy
EntropyValue(e) ==
    IF e.zero THEN [exact |-> TRUE, nan |-> FALSE, num |-> 0, den |-> 1]
    ELSE stats_entropy(e.pk)

\* "Sample %i" % (j_pts + 1)
SampleLabel(j) == "Sample " \o CountStr(j)

\* the columns after the first one: per site, the strings and the counts of
\* the first table and the counts of every other table; q counts them from 0
SiteOf(np, q) == q \div (Len(np) + 1) + 1

PlaceOf(np, q) == q % (Len(np) + 1)

\* summary_np before the entropies are appended
SummaryTable(np) ==
    [r \in 1..Len(np[1]) |->
        [c \in 1..(1 + NTarget(np) * (Len(np) + 1)) |->
            IF c = 1 THEN ""
            ELSE IF PlaceOf(np, c - 2) = 0 THEN np[1][r][2 * SiteOf(np, c - 2) - 1]
            ELSE IF r = 1 THEN SampleLabel(PlaceOf(np, c - 2))
            ELSE np[PlaceOf(np, c - 2)][r][2 * SiteOf(np, c - 2)]]]

\* entropy_np: '', and per site "Entropy:" and the entropy of every table
EntropyRow(np) ==
    [c \in 1..(1 + NTarget(np) * (Len(np) + 1)) |->
        IF c = 1 THEN TextCell("")
        ELSE IF PlaceOf(np, c - 2) = 0 THEN TextCell("Entropy:")
        ELSE EntI(ValI(np[PlaceOf(np, c - 2)], SiteOf(np, c - 2)))]

\* the result, or the exception of a division
Aggregated(table, entropy_np) ==
    IF \E c \in DOMAIN entropy_np : ZeroDivision(entropy_np[c])
    THEN [raised |-> TRUE, table |-> <<>>, entropy_np |-> <<>>]
    ELSE [raised |-> FALSE, table |-> table, entropy_np |-> entropy_np]

\* reads the files that lineage_ngs_np2sum saved
lineage_ngs_aggregate ==
    /\ pc = "summed"
    /\ summary_np' = Aggregated(SummaryTable(np_sum), EntropyRow(np_sum))
    /\ pc' = IF \E c \in DOMAIN EntropyRow(np_sum) : ZeroDivision(EntropyRow(np_sum)[c])
             THEN "failed" ELSE "aggregated"
    /\ UNCHANGED <<proto, callvars, histvars, consvars, np_list, np_sum, tar_list, np_out>>

NextTabs == lineage_ngs_np2sum \/ lineage_ngs_aggregate

SpecTabs == InitTabs /\ [][NextTabs]_vars

(***************************************************************************)
(* lineage_ngs_mutdist.  The cells of the table are texts, sequences of    *)
(* characters, as they stand in the csv file that lineage_ngs_dict2csv     *)
(* saved; '' is the empty sequence.                                        *)
(***************************************************************************)
\* the characters of the cells, in the order Python compares them
CharOrder ==
    << "*", "-", "0", "1", "2", "3", "4", "5", "6", "7", "8", "9",
       "A", "C", "G", "T", "_", "c", "h", "m", "r", "t", "u" >>

CharRank(ch) == CHOOSE k \in DOMAIN CharOrder : CharOrder[k] = ch

\* a < b for Python strings
StrLess(a, b) ==
    \E i \in 1..Len(b) :
        /\ \A k \in 1..(i - 1) : k <= Len(a) /\ a[k] = b[k]
        /\ i > Len(a) \/ CharRank(a[i]) < CharRank(b[i])

\* mut_list.sort(reverse=True) on entries with distinct strings
TextSortedReverse(S) ==
    CHOOSE l \in [1..Cardinality(S) -> S] :
        /\ \A e \in S : \E r \in DOMAIN l : l[r] = e
        /\ \A r \in DOMAIN l : \A q \in DOMAIN l : r < q => StrLess(l[q][1], l[r][1])

\* dictkeys.sort()
TextSortedKeys(K) ==
    CHOOSE l \in [1..Cardinality(K) -> K] :
        /\ \A e \in K : \E r \in DOMAIN l : l[r] = e
        /\ \A r \in DOMAIN l : \A q \in DOMAIN l : r < q => StrLess(l[r], l[q])

\* the csv file of mut_dict md, a function from site keys to sets of
\* <<string, count>>: _lineage_ngs_dict2np(md) written with fmt='%s'
SavedTable(md) ==
    LET dictkeys == TextSortedKeys(DOMAIN md)
        clen == Len(dictkeys)
        rlen == SetMax({Cardinality(md[k]) : k \in DOMAIN md})
        mut_list(c) == TextSortedReverse(md[dictkeys[c]])
        col(c) == (c + 1) \div 2
    IN  [r \in 1..(rlen + 1) |->
            [c \in 1..(clen * 2) |->
                IF r = 1 THEN (IF c % 2 = 1 THEN dictkeys[col(c)] ELSE <<>>)
                ELSE IF r - 1 > Len(mut_list(col(c))) THEN <<>>
                ELSE IF c % 2 = 1 THEN mut_list(col(c))[r - 1][1]
                ELSE NatToStr(mut_list(col(c))[r - 1][2])]]

\* s.split(sep)
Split(s, sep) ==
    LET P == {i \in 1..Len(s) : s[i] = sep}
        n == Cardinality(P)
        at(k) == IF k = 0 THEN 0
                 ELSE IF k = n + 1 THEN Len(s) + 1
                 ELSE CHOOSE p \in P : Cardinality({q \in P : q < p}) = k - 1
    IN  [k \in 1..(n + 1) |-> SubSeq(s, at(k - 1) + 1, at(k) - 1)]

RECURSIVE ParseNat(_)
ParseNat(s) ==
    IF s = <<>> THEN 0
    ELSE ParseNat(SubSeq(s, 1, Len(s) - 1)) * 10 + PyInt(s[Len(s)])

\* int(s) of a text written with "%i" or "%s"
IntOfStr(s) == IF Head(s) = "-" THEN 0 - ParseNat(Tail(s)) ELSE ParseNat(s)

\* longest deleted sequence of the class D<=5
SmallDel == 5

\* both distances are to be greater than this
BiasFloor == -5

\* tar_i of site i: the rows with a text in column 2i-1, the key row first
TarI(t, i) ==
    LET Filled(row) == row[2 * i - 1] /= <<>>
        rows == SelectSeq(t, Filled)
    IN  [j \in 1..Len(rows) |-> <<rows[j][2 * i - 1], rows[j][2 * i]>>]

\* ct in place b of mut_i, 0 elsewhere
Unit(b, ct) == [k \in 1..10 |-> IF k = b THEN ct ELSE 0]

\* Biased that takes any two distances
BiasedAlways(lt_ij, rt_ij) == TRUE

\* lines 600, 607
Biased(lt_ij, rt_ij) == lt_ij > BiasFloor /\ rt_ij > BiasFloor

\* lines 596-611: what a deletion row adds to mut_i
DeletionAdded(field, ct_ij) ==
    LET del_ij == Split(field, "*")
        lt_ij == IntOfStr(del_ij[2])
        rt_ij == IntOfStr(del_ij[3])
        size == IF Len(del_ij[1]) <= SmallDel THEN 5 ELSE 6
        biased == Biased(lt_ij, rt_ij)
    IN  [k \in 1..10 |->
            IF k = size THEN ct_ij
            ELSE IF k = size + 2 /\ size = 5 /\ biased /\ lt_ij > rt_ij THEN ct_ij
            ELSE IF k = size + 3 /\ size = 5 /\ biased /\ lt_ij < rt_ij THEN ct_ij
            ELSE IF k = size + 3 /\ size = 6 /\ biased /\ lt_ij > rt_ij THEN ct_ij
            ELSE IF k = size + 4 /\ size = 6 /\ biased /\ lt_ij < rt_ij THEN ct_ij
            ELSE 0]

\* lines 585-611: what row <<string, count>> adds to mut_i
Added(row) ==
    LET str_ij == Split(row[1], "_")
        ct_ij == IntOfStr(row[2])
    IN  IF str_ij[2] /= Dash THEN Unit(1, ct_ij)
        ELSE IF str_ij[3] /= Dash THEN Unit(2, ct_ij)
        ELSE IF str_ij[4] /= Dash
             THEN (IF Len(str_ij[4]) <= 1 THEN Unit(3, ct_ij) ELSE Unit(4, ct_ij))
        ELSE IF str_ij[5] /= Dash THEN DeletionAdded(str_ij[5], ct_ij)
        ELSE Unit(0, ct_ij)

\* mut_i after the loop over the rows j > 0 of tar_i
MutI(tar_i) ==
    [b \in 1..10 |-> SumSeq([j \in 1..(Len(tar_i) - 1) |-> Added(tar_i[j + 1])[b]])]

Labels ==
    << "location", "intact", "SNV", "Ins+1", "Ins>1", "D<=5", "D>5",
       "D<=5 dist", "D<=5 prox", "D>5 dist", "D>5 prox" >>

\* np_out as it is saved: the labels, then one column per site
MutDist(t) ==
    [r \in 1..11 |->
        [c \in 1..(NCols(t) \div 2 + 1) |->
            IF c = 1 THEN Labels[r]
            ELSE IF r = 1 THEN t[1][2 * (c - 1) - 1]
            ELSE MutI(TarI(t, c - 1))[r - 1]]]

(***************************************************************************)
(* Inputs: the table of a sample, its strings written as the classifier    *)
(* writes its calls                                                        *)
(***************************************************************************)
\* lengths of the deleted sequences
DelLens == {2, SmallDel, SmallDel + 1}

\* distances of the cut site from the left boundary; the right distance is
\* the length less the left distance
LeftDists == {BiasFloor, BiasFloor + 1, 1, 3, 7}

\* calls: an intact base, a changed base, inserted runs (an empty one
\* comes with homopolymer anchors), deleted runs
DistCalls ==
    {[kind |-> "intact", seq |-> <<"T">>, lt |-> 0, rt |-> 0],
     [kind |-> "snv", seq |-> <<"C">>, lt |-> 0, rt |-> 0]}
    \cup {[kind |-> "ins", seq |-> Rep("A", n), lt |-> 0, rt |-> 0] : n \in 0..MaxIns}
    \cup {[kind |-> "del", seq |-> Rep("G", n), lt |-> l, rt |-> n - l] :
            n \in DelLens, l \in LeftDists}

\* mut_string of a call
CallText(c) ==
    CASE c.kind = "intact" -> MutString(c.seq, Dash, Dash, Dash)
      [] c.kind = "snv" -> MutString(Dash, c.seq, Dash, Dash)
      [] c.kind = "ins" -> MutString(Dash, Dash, c.seq, Dash)
      [] OTHER -> MutString(Dash, Dash, Dash,
                            c.seq \o <<"*">> \o IntToStr(c.lt) \o <<"*">> \o IntToStr(c.rt))

\* most histogram entries of the first site, and of a further site
MaxRows == 2

MaxRowsNext == 1

DistKeys ==
    << <<"c", "h", "r", "1", "_", "1", "0", "0">>,
       <<"c", "h", "r", "2", "_", "2", "0", "0">> >>

\* the histograms of a site with at most n entries, each with a count of
\* 1 or more
DistHists(n) ==
    UNION {{ {<<CallText(c), f[c]>> : c \in S} : f \in [S -> 1..MaxCount] } :
              S \in {T \in SUBSET DistCalls : Cardinality(T) <= n}}

DistDicts ==
    {(DistKeys[1] :> h) : h \in DistHists(MaxRows)}
    \cup {(DistKeys[1] :> h) @@ (DistKeys[2] :> g) :
            h \in DistHists(MaxRows), g \in DistHists(MaxRowsNext)}

InitDist ==
    /\ pc = "loaded"
    /\ tar_list \in {SavedTable(d) : d \in DistDicts}
    /\ np_out = <<>>
    /\ np_list = <<>>
    /\ np_sum = <<>>
    /\ summary_np = <<>>
    /\ proto = Guide
    /\ seq_e = <<>>
    /\ anchors = NotFound
    /\ edit = NoEdit
    /\ seq_i = <<>>
    /\ call = NullCall
    /\ keys = <<>>
    /\ dict_int = <<>>
    /\ dict_ind = <<>>
    /\ mut_dict = <<>>
    /\ NoConsensus

lineage_ngs_mutdist ==
    /\ pc = "loaded"
    /\ np_out' = MutDist(tar_list)
    /\ pc' = "categorized"
    /\ UNCHANGED <<proto, callvars, histvars, consvars, np_list, np_sum, summary_np, tar_list>>

NextDist == lineage_ngs_mutdist

SpecDist == InitDist /\ [][NextDist]_vars

(***************************************************************************)
(* Properties of the locator and the classifier                            *)
(***************************************************************************)
Fields == {"intact", "snv", "insertion", "deletion"}

\* a returned, non-null call
Returned(c) == ~c.raised /\ ~c.null

\* a call with field f populated and the other three "-"
Only(c, f) == Returned(c) /\ c[f] /= Dash /\ \A g \in Fields \ {f} : c[g] = Dash

\* the candidate is the reference with the base at index p replaced
SubstitutedAt(p) == pc = "called" /\ edit.kind = "sub" /\ edit.pos = p

\* the base the call reports for the substituted base
Reported(b) == IF anchors.rc THEN get_reverse_complement(b) ELSE b

\* C1: a reference that holds the guide or its reverse complement, compared
\* with itself under the anchors _lineage_ngs_define derives from it, is
\* always called Intact: the call is returned, not null, the intact field is
\* populated and the SNV, insertion and deletion fields are "-".
C1_SelfComparisonIntact ==
    (pc = "called" /\ seq_i = seq_e) => Only(call, "intact")

C1_Witness ==
    /\ pc = "called" /\ seq_i = seq_e /\ anchors.rc
    /\ Only(call, "intact") /\ call.intact = <<"T">>

\* C3 as stated: a candidate of the reference's length that differs from it
\* in the one base at the cut site is called SNV, carrying the candidate's
\* base (reverse-complemented when the orientation flag is set).
C3_SnvAtCutSite ==
    SubstitutedAt(anchors.cut) =>
        (Only(call, "snv") /\ call.snv = Reported(edit.str))

\* C3 as amended: the same, provided the left anchor does not occur in the
\* reference before the place it was taken from, and the right anchor first
\* occurs in the candidate where it first occurs in the reference.
C3_SnvAtCutSiteAnchored ==
    (/\ SubstitutedAt(anchors.cut)
     /\ PyFind(seq_e, anchors.lt_seq) = anchors.lt1
     /\ PyFind(seq_i, anchors.rt_seq) = PyFind(seq_e, anchors.rt_seq))
    => (Only(call, "snv") /\ call.snv = Reported(edit.str))

C3_Witness ==
    /\ SubstitutedAt(anchors.cut) /\ anchors.rc
    /\ PyFind(seq_e, anchors.lt_seq) = anchors.lt1
    /\ PyFind(seq_i, anchors.rt_seq) = PyFind(seq_e, anchors.rt_seq)
    /\ edit.str = <<"T">> /\ Only(call, "snv") /\ call.snv = <<"A">>

\* C4 as stated: with reference 20 A + guide + 20 G, the identical candidate
\* is called Intact and a candidate with the guide's 10th base changed is
\* called SNV carrying the changed base.
C4_ExampleTenthBase ==
    (pc = "called" /\ seq_e = ExampleRef) =>
        /\ (seq_i = seq_e => Only(call, "intact"))
        /\ (SubstitutedAt(GuideStart(seq_e) + 9) =>
                (Only(call, "snv") /\ call.snv = edit.str))

\* C4 as amended: with reference 20 A + guide + 20 G, the identical
\* candidate is called Intact and a candidate with the guide's 17th base
\* (the base at the cut site) changed is called SNV carrying the changed
\* base.
C4_ExampleCutBase ==
    (pc = "called" /\ seq_e = ExampleRef) =>
        /\ (seq_i = seq_e => Only(call, "intact"))
        /\ (SubstitutedAt(GuideStart(seq_e) + 16) =>
                (Only(call, "snv") /\ call.snv = edit.str))

C4_Witness ==
    /\ seq_e = ExampleRef /\ SubstitutedAt(GuideStart(seq_e) + 16)
    /\ edit.str = <<"G">> /\ Only(call, "snv") /\ call.snv = <<"G">>

\* C5 as stated: a candidate made by inserting N >= 1 bases between the two
\* anchors is called Insertion, and the extracted sequence has length N.
C5_InsertionLength ==
    (pc = "called" /\ edit.kind = "ins") =>
        (Only(call, "insertion") /\ Len(call.insertion) = Len(edit.str))

\* C5 as amended: the same, provided each anchor first occurs in the
\* reference at the place it was taken from and the right anchor first
\* occurs in the candidate N bases further right.
C5_InsertionLengthAnchored ==
    (/\ pc = "called" /\ edit.kind = "ins"
     /\ PyFind(seq_e, anchors.lt_seq) = anchors.lt1
     /\ PyFind(seq_e, anchors.rt_seq) = anchors.rt1
     /\ PyFind(seq_i, anchors.rt_seq) = anchors.rt1 + Len(edit.str))
    => (Only(call, "insertion") /\ Len(call.insertion) = Len(edit.str))

C5_Witness ==
    /\ pc = "called" /\ edit.kind = "ins" /\ Len(edit.str) = MaxIns
    /\ PyFind(seq_e, anchors.lt_seq) = anchors.lt1
    /\ PyFind(seq_e, anchors.rt_seq) = anchors.rt1
    /\ PyFind(seq_i, anchors.rt_seq) = anchors.rt1 + Len(edit.str)
    /\ edit.pos = anchors.rt1
    /\ Only(call, "insertion") /\ Len(call.insertion) = MaxIns

\* C6: a candidate made by removing M >= 1 contiguous bases between the two
\* anchors is called Deletion, and the extracted deleted sequence has
\* length M.
C6_DeletionLength ==
    (pc = "called" /\ edit.kind = "del") =>
        (Only(call, "deletion") /\ Len(call.delet) = Len(edit.str))

\* C7: a returned non-null call has exactly one of its four fields other
\* than "-": the insertion field exactly when the anchors lie further apart
\* in the candidate than in the reference, the deletion field exactly when
\* they lie further apart in the reference, the intact or the SNV field
\* exactly when the two distances are equal.
C7_ExactlyOneField ==
    (pc = "called" /\ Returned(call)) =>
        LET len_e == PyFind(seq_e, anchors.rt_seq) - PyFind(seq_e, anchors.lt_seq)
            len_i == PyFind(seq_i, anchors.rt_seq) - PyFind(seq_i, anchors.lt_seq)
        IN  /\ Cardinality({f \in Fields : call[f] /= Dash}) = 1
            /\ (call.insertion /= Dash <=> len_i > len_e)
            /\ (call.deletion /= Dash <=> len_e > len_i)
            /\ ((call.intact /= Dash \/ call.snv /= Dash) <=> len_i = len_e)

C7_Witness ==
    /\ pc = "called" /\ Returned(call) /\ edit.kind = "sub"
    /\ call.deletion /= Dash /\ call.intact = Dash /\ call.snv = Dash
    /\ call.insertion = Dash

\* both anchors occur in the candidate
BothFound ==
    /\ pc = "called"
    /\ PyFind(seq_i, anchors.lt_seq) /= -1
    /\ PyFind(seq_i, anchors.rt_seq) /= -1

\* C8 as stated: when both anchors are found in the candidate, the cropped
\* region is the candidate from right after the last base of the left
\* anchor to right before the first base of the right anchor.
C8_CroppedStrictlyBetween ==
    BothFound =>
        LET from == PyFind(seq_i, anchors.lt_seq) + Len(anchors.lt_seq)
            n == Max2(0, PyFind(seq_i, anchors.rt_seq) - from)
        IN  /\ ~call.raised
            /\ Len(call.cropped) = n
            /\ \A k \in 1..n : call.cropped[k] = seq_i[from + k]

\* C8 as amended: when both anchors are found in the candidate, the cropped
\* region is the candidate from right after the last base of the left
\* anchor through the first base of the right anchor, that base included
\* (empty when that base lies before the start), for every call type.
C8_CroppedThroughAnchorStart ==
    BothFound =>
        LET from == PyFind(seq_i, anchors.lt_seq) + Len(anchors.lt_seq)
            n == Max2(0, PyFind(seq_i, anchors.rt_seq) + 1 - from)
        IN  /\ ~call.raised
            /\ Len(call.cropped) = n
            /\ \A k \in 1..n : call.cropped[k] = seq_i[from + k]

C8_Witness ==
    /\ BothFound /\ Only(call, "deletion")
    /\ Len(call.cropped) > 1
    /\ call.cropped[Len(call.cropped)] = anchors.rt_seq[1]

\* the located cut site lies far enough from both ends: nothing is clamped
Unclamped ==
    /\ pc /= "start" /\ anchors.found
    /\ anchors.cut - 40 >= 0
    /\ anchors.cut + 41 <= Len(seq_e)

\* C9: without clamping the two anchors have exactly 20 bases each, the
\* left one ending 19 bases before the cut site and the right one starting
\* 20 bases after it.
C9_AnchorsTwentyBases ==
    Unclamped =>
        /\ Len(anchors.lt_seq) = 20
        /\ Len(anchors.rt_seq) = 20
        /\ anchors.lt_seq = PySlice(seq_e, anchors.cut - 39, anchors.cut - 19)
        /\ anchors.rt_seq = PySlice(seq_e, anchors.cut + 20, anchors.cut + 40)

\* the reference is <20 bases L><guide><20 bases R>, the guide occurring in
\* forward orientation only
Assembled20 ==
    /\ pc /= "start"
    /\ Len(seq_e) = 60
    /\ SubSeq(seq_e, 21, 40) = proto
    /\ PyFind(seq_e, get_reverse_complement(proto)) = -1

\* C10 as stated: on <20 bases L><guide><20 bases R> the locator returns L
\* as the left anchor and R as the right anchor, forward orientation, and a
\* cut site 16 bases into the guide.
C10_RoundTripFlanks ==
    Assembled20 =>
        /\ anchors.found /\ ~anchors.rc
        /\ anchors.cut = 20 + 16
        /\ anchors.lt_seq = SubSeq(seq_e, 1, 20)
        /\ anchors.rt_seq = SubSeq(seq_e, 41, 60)

\* C10 as amended: on <20 bases L><guide><20 bases R>, the guide first
\* occurring at its assembled place, the locator returns the first 17 bases
\* of L as the left anchor and the last 4 bases of R as the right anchor
\* (both clamped at the sequence ends), forward orientation, and a cut site
\* 16 bases into the guide.
C10_RoundTripClamped ==
    (Assembled20 /\ PyFind(seq_e, proto) = 20) =>
        /\ anchors.found /\ ~anchors.rc
        /\ anchors.cut = 20 + 16
        /\ anchors.lt_seq = SubSeq(seq_e, 1, 17)
        /\ anchors.rt_seq = SubSeq(seq_e, 57, 60)

C10_Witness ==
    /\ Assembled20 /\ PyFind(seq_e, proto) = 20
    /\ anchors.found /\ ~anchors.rc /\ anchors.cut = 36
    /\ Len(anchors.lt_seq) = 17 /\ anchors.rt_seq = <<"G", "C", "G", "C">>

(***************************************************************************)
(* Properties of lineage_ngs_dict2csv                                      *)
(***************************************************************************)
\* the site has been processed and was not skipped
Processed == pc = "saved" /\ Len(dict_int[1]) > 0 /\ Len(dict_ind[1]) > 0

\* the reads of the site in the order they are called
SiteReads == dict_ind[1] \o dict_int[1]

\* the reference of the site and the calls of its reads
TheRef == SiteRef(dict_int[1], keys[1].seq, proto)

TheCalls == CallsAgainst(TheRef, dict_int[1], dict_ind[1])

TheHist == mut_dict[OutKey(keys[1])]

\* anchors defined, and one of them not a substring of the read
AnchorMissing(read, a) ==
    a.found /\ (PyFind(read, a.lt_seq) = -1 \/ PyFind(read, a.rt_seq) = -1)

\* list s without its element j
Without(s, j) == SubSeq(s, 1, j - 1) \o SubSeq(s, j + 1, Len(s))

\* the two read sets of the site with read j of SiteReads removed
IntsWithout(j) ==
    IF j <= Len(dict_ind[1]) THEN dict_int[1]
    ELSE Without(dict_int[1], j - Len(dict_ind[1]))

IndsWithout(j) ==
    IF j <= Len(dict_ind[1]) THEN Without(dict_ind[1], j) ELSE dict_ind[1]

\* the histogram of the site had read j not been there
HistWithout(j) ==
    SiteResult(IntsWithout(j), IndsWithout(j), keys[1].seq, proto).hist

\* without read j the site is still processed, against the same reference
SameSiteWithout(j) ==
    /\ Len(IntsWithout(j)) > 0
    /\ Len(IndsWithout(j)) > 0
    /\ SiteRef(IntsWithout(j), keys[1].seq, proto) = TheRef

\* the number of calls other than call j kept under string x
CountOthers(calls, j, x) ==
    Cardinality({k \in DOMAIN calls \ {j} :
        /\ Returned(calls[k])
        /\ calls[k].cropped /= <<>>
        /\ calls[k].mut_string = x})

\* the reads of SiteReads that miss an anchor of a
Missing(a) == {j \in DOMAIN SiteReads : AnchorMissing(SiteReads[j], a)}

\* call j is the null call and no exception was raised
NullCalls(calls, J) == \A j \in J : calls[j].null /\ ~calls[j].raised

\* every entry of hist counts the calls other than call j, and every string
\* of such a call has an entry
CountsOthers(calls, j, hist) ==
    /\ \A e \in hist : e[2] = CountOthers(calls, j, e[1])
    /\ \A k \in DOMAIN calls \ {j} :
          CountOthers(calls, j, calls[k].mut_string) > 0 =>
              \E e \in hist : e[1] = calls[k].mut_string

\* C2 as stated: a read with a missing anchor gets the null call without an
\* exception, and the histogram of the site is the one the site has without
\* that read
C2_MissingAnchorAsAbsent ==
    Processed =>
        /\ NullCalls(TheCalls, Missing(TheRef.a))
        /\ \A j \in Missing(TheRef.a) : TheHist = HistWithout(j)

\* the amended property for reference r, calls and histogram hist
SkippedIn(r, calls, hist) ==
    /\ NullCalls(calls, Missing(r.a))
    /\ \A j \in Missing(r.a) :
          /\ CountsOthers(calls, j, hist)
          /\ (/\ Len(IntsWithout(j)) > 0
              /\ Len(IndsWithout(j)) > 0
              /\ SiteRef(IntsWithout(j), keys[1].seq, proto) = r)
                 => hist = HistWithout(j)

SkippedAgainst(r) ==
    SkippedIn(r, CallsAgainst(r, dict_int[1], dict_ind[1]), TheHist)

\* C2 amended: a read with a missing anchor gets the null call without an
\* exception and is counted under no histogram entry, every entry counting
\* the other reads only; the histogram is the one the site has without that
\* read whenever the site without it keeps both read sets non-empty and the
\* same reference
C2_MissingAnchorSkipped ==
    Processed => SkippedAgainst(TheRef)

\* a processed site with a read that misses an anchor, other reads counted,
\* and the same site without that read
C2_Witness ==
    /\ Processed
    /\ TheHist /= {}
    /\ \E j \in Missing(TheRef.a) : SameSiteWithout(j)

\* the number of calls that returned string x
CountReturned(calls, x) ==
    Cardinality({k \in DOMAIN calls : Returned(calls[k]) /\ calls[k].mut_string = x})

\* no string has two entries in hist
UniqueStrings(hist) == \A e \in hist : \A f \in hist : e[1] = f[1] => e = f

\* hist has an entry for exactly the strings returned in calls, each with
\* the number of calls that returned it
CountsReturned(calls, hist) ==
    /\ \A e \in hist : e[2] > 0 /\ e[2] = CountReturned(calls, e[1])
    /\ \A k \in DOMAIN calls :
          Returned(calls[k]) => \E e \in hist : e[1] = calls[k].mut_string

\* C13: whatever the two read sets of the site hold, its histogram lists a
\* string at most once, with the number of reads of both sets for which
\* _lineage_ngs_mutations, against the reference of the site, returns that
\* string
C13_HistogramCountsReads ==
    (pc = "saved" /\ Len(dict_int[1]) > 0) =>
        /\ UniqueStrings(TheHist)
        /\ CountsReturned(TheCalls, TheHist)

(***************************************************************************)
(* Properties of the orientation chosen by _lineage_ngs_define             *)
(***************************************************************************)
Located == pc /= "start"

\* C11: when the guide occurs forward in the reference the result is the
\* forward one (flag false, cut site 16 bases into the first forward match),
\* and the reverse-complement result (flag true, cut site 3 bases into the
\* reverse-complement match) is given only when the forward guide is absent
C11_ForwardFirst ==
    Located =>
        /\ PyFind(seq_e, proto) /= -1 =>
              /\ anchors.found
              /\ ~anchors.rc
              /\ anchors.cut = PyFind(seq_e, proto) + 16
        /\ (anchors.found /\ anchors.rc) =>
              /\ PyFind(seq_e, proto) = -1
              /\ anchors.cut = PyFind(seq_e, get_reverse_complement(proto)) + 3

(***************************************************************************)
(* Properties of lineage_ngs_dict2csv over several sites                   *)
(***************************************************************************)
Finished == pc \in {"saved", "failed"}

\* site i has reads in both sets, and neither its consensus nor its genomic
\* sequence holds the guide or its reverse complement
GuideNowhere(i) ==
    /\ Len(dict_int[i]) > 0
    /\ Len(dict_ind[i]) > 0
    /\ ~_lineage_ngs_define(consensus_sequence(dict_int[i]), proto).found
    /\ ~_lineage_ngs_define(keys[i].seq, proto).found

\* C12: with the guide in neither the consensus nor the genomic sequence of
\* a site, _lineage_ngs_define gives the all-None result, the function ends
\* without an exception, the site has an empty histogram and every other
\* site has the histogram of its reads
C12_NotFoundNotFatal ==
    Finished =>
        \A i \in DOMAIN keys :
            GuideNowhere(i) =>
                /\ SiteRef(dict_int[i], keys[i].seq, proto).a = NotFound
                /\ pc = "saved"
                /\ mut_dict[OutKey(keys[i])] = {}
                /\ \A k \in DOMAIN keys \ {i} :
                      mut_dict[OutKey(keys[k])] =
                          SiteResult(dict_int[k], dict_ind[k], keys[k].seq, proto).hist

(***************************************************************************)
(* Properties of consensus_sequence                                        *)
(***************************************************************************)
Identical(ss) == Len(ss) > 0 /\ \A j \in DOMAIN ss : ss[j] = ss[1]

OverBases(sq) == \A i \in DOMAIN sq : sq[i] \in Bases

\* C14 as stated: the consensus of a non-empty list of identical sequences
\* is that sequence
C14_IdenticalGivesSame ==
    (pc = "returned" /\ Identical(seq_list)) => seq_out = seq_list[1]

\* C14 amended: the consensus of a non-empty list of identical sequences
\* over A, C, G, T is that sequence; where the sequences hold another
\* symbol, the consensus holds A
C14_IdenticalBasesGiveSame ==
    (pc = "returned" /\ Identical(seq_list)) =>
        /\ OverBases(seq_list[1]) => seq_out = seq_list[1]
        /\ Len(seq_out) = Len(seq_list[1])
        /\ \A i \in DOMAIN seq_out :
              seq_out[i] = IF seq_list[1][i] \in Bases THEN seq_list[1][i] ELSE "A"

C14_Witness ==
    /\ pc = "returned"
    /\ Len(seq_list) = MaxSeqs
    /\ Identical(seq_list)
    /\ seq_list[1] = <<"G", "T">>
    /\ seq_out = <<"G", "T">>

\* the number of sequences of ss that have length n
WithLen(ss, n) == Cardinality({j \in DOMAIN ss : Len(ss[j]) = n})

\* the number of sequences of ss of length n that hold b at place i
Votes(ss, n, i, b) ==
    Cardinality({j \in DOMAIN ss : Len(ss[j]) = n /\ ss[j][i] = b})

\* place of a base in the order A, C, G, T
Rank(b) == CHOOSE k \in 1..4 : BaseOrder[k] = b

\* C15: the consensus has a most common length of the input, and at every
\* place holds the base of A, C, G, T that most sequences of that length
\* hold there, the earliest one in the order A, C, G, T on a tie
C15_ModalLengthMajorityBase ==
    pc = "returned" =>
        /\ \A j \in DOMAIN seq_list :
              WithLen(seq_list, Len(seq_out)) >= WithLen(seq_list, Len(seq_list[j]))
        /\ \A i \in DOMAIN seq_out :
              /\ seq_out[i] \in Bases
              /\ \A b \in Bases :
                    \/ Votes(seq_list, Len(seq_out), i, seq_out[i])
                          > Votes(seq_list, Len(seq_out), i, b)
                    \/ /\ Votes(seq_list, Len(seq_out), i, seq_out[i])
                             = Votes(seq_list, Len(seq_out), i, b)
                       /\ Rank(seq_out[i]) <= Rank(b)

\* a longer sequence is left out of the vote and a tie between C and T goes
\* to C
C15_Witness ==
    /\ pc = "returned"
    /\ seq_list = << <<"T">>, <<"C">>, <<"G", "G">> >>
    /\ seq_out = <<"C">>

\* C16: consensus_sequence of an empty list raises nothing and returns an
\* empty sequence
C16_EmptyGivesEmpty ==
    (pc /= "given" /\ seq_list = <<>>) => (pc = "returned" /\ seq_out = <<>>)

(***************************************************************************)
(* Properties of lineage_ngs_np2sum and lineage_ngs_aggregate              *)
(***************************************************************************)
\* lineage_ngs_np2sum has saved its tables
Summed == pc \in {"summed", "aggregated"}

\* the number of sites of table t
Sites(t) == NCols(t) \div 2

\* the tables have the same site keys in the same columns
Aligned(np) == \A k \in DOMAIN np : np[k][1] = np[1][1]

\* the rows of table t that hold string x for site j
RowsOf(t, j, x) == {r \in 2..Len(t) : t[r][2 * j - 1] = x}

\* the count of string x for site j in table t, 0 without a row
CountIn(t, j, x) ==
    IF RowsOf(t, j, x) = {} THEN 0
    ELSE PyInt(t[CHOOSE r \in RowsOf(t, j, x) : TRUE][2 * j])

\* the sum of the counts of site j in table t
TotalIn(t, j) == SumSeq(ValI(t, j))

\* C17: with the same site keys in the same columns of every table, every
\* saved table holds for every site the strings of all tables for that
\* site, each string in one row, under the key of the site
C17_UnionOfStrings ==
    (Summed /\ Aligned(np_list)) =>
        \A i \in DOMAIN np_list :
            /\ np_sum[i][1] = np_list[i][1]
            /\ \A j \in 1..Sites(np_list[i]) :
                  /\ OwnTypes(np_sum[i], j) = MutTypes(np_list, j)
                  /\ \A x \in MutTypes(np_list, j) :
                        Cardinality(RowsOf(np_sum[i], j, x)) = 1
                  /\ \A k \in DOMAIN np_list :
                        OwnTypes(np_sum[i], j) = OwnTypes(np_sum[k], j)

\* two samples with different strings for a site, both saved with the two
C17_Witness ==
    /\ Summed
    /\ Len(np_list) = 2
    /\ Aligned(np_list)
    /\ OwnTypes(np_list[1], 1) = {MutOrder[1]}
    /\ OwnTypes(np_list[2], 1) = {MutOrder[2]}
    /\ OwnTypes(np_sum[1], 1) = {MutOrder[1], MutOrder[2]}
    /\ OwnTypes(np_sum[2], 1) = {MutOrder[1], MutOrder[2]}

\* site j of sample i has in the saved table the counts it had, 0 for the
\* strings of other samples, and the same sum of counts
Conserved(i, j) ==
    /\ j <= Sites(np_sum[i])
    /\ np_sum[i][1][2 * j - 1] = np_list[i][1][2 * j - 1]
    /\ \A x \in OwnTypes(np_list[i], j) :
          CountIn(np_sum[i], j, x) = CountIn(np_list[i], j, x)
    /\ \A x \in OwnTypes(np_sum[i], j) \ OwnTypes(np_list[i], j) :
          CountIn(np_sum[i], j, x) = 0
    /\ TotalIn(np_sum[i], j) = TotalIn(np_list[i], j)

C19_MisalignedReported ==
    (pc /= "tables" /\ ~Aligned(np_list)) => (pc = "failed" /\ np_sum = <<>>)

\* lineage_ngs_aggregate has run
AggregateRan == pc \in {"aggregated", "failed"} /\ np_sum /= <<>>

\* the cell of entropy_np for site j and sample i
EntropyOf(j, i) == summary_np.entropy_np[1 + (j - 1) * (Len(np_sum) + 1) + 1 + i]

\* C20: for every site and sample whose counts sum to 0, a site without any
\* row included, the entropy is the literal 0, and no quotient with the
\* divisor 0 is formed
C20_ZeroTotalZeroEntropy ==
    AggregateRan =>
        /\ pc = "aggregated"
        /\ ~summary_np.raised
        /\ \A i \in DOMAIN np_sum : \A j \in 1..Sites(np_sum[1]) :
              /\ ~ZeroDivision(EntropyOf(j, i))
              /\ TotalIn(np_sum[i], j) = 0 =>
                    EntropyOf(j, i) = [text |-> "", zero |-> TRUE, pk |-> <<>>]

\* a sample with only counts of 0 for a site, and a site without any row
C20_Witness ==
    /\ pc = "aggregated"
    /\ Len(np_sum) = 2
    /\ Sites(np_sum[1]) = 2
    /\ OwnTypes(np_sum[1], 1) /= {}
    /\ TotalIn(np_sum[1], 1) = 0
    /\ EntropyOf(1, 1).zero
    /\ OwnTypes(np_sum[1], 2) = {}
    /\ EntropyOf(2, 1).zero
    /\ ~EntropyOf(1, 2).zero

\* the counts of val that are not 0
Positive(val) == {k \in DOMAIN val : val[k] > 0}

\* C21: the entropy of a site and sample is the base-2 Shannon entropy of
\* the counts divided by their sum: 0 bits when one string has all the
\* reads, the other strings having count 0, and 1 bit when two strings have
\* the same number of reads and no other string has any
C21_EntropyBits ==
    pc = "aggregated" =>
        \A i \in DOMAIN np_sum : \A j \in 1..Sites(np_sum[1]) :
            /\ TotalIn(np_sum[i], j) /= 0 => EntropyOf(j, i).pk =
                  [k \in DOMAIN ValI(np_sum[i], j) |->
                      <<ValI(np_sum[i], j)[k], TotalIn(np_sum[i], j)>>]
            /\ Cardinality(Positive(ValI(np_sum[i], j))) = 1 =>
                  /\ EntropyValue(EntropyOf(j, i)).exact
                  /\ EntropyValue(EntropyOf(j, i)).num = 0
            /\ (/\ Cardinality(Positive(ValI(np_sum[i], j))) = 2
                /\ \A k \in Positive(ValI(np_sum[i], j)) :
                      2 * ValI(np_sum[i], j)[k] = TotalIn(np_sum[i], j)) =>
                  /\ EntropyValue(EntropyOf(j, i)).exact
                  /\ EntropyValue(EntropyOf(j, i)).num
                        = EntropyValue(EntropyOf(j, i)).den

\* one sample with all reads of a site on one of two strings, another with
\* its reads split equally between the two
C21_Witness ==
    /\ pc = "aggregated"
    /\ Len(np_sum) = 2
    /\ ValI(np_sum[1], 1) = <<0, MaxCount>>
    /\ EntropyValue(EntropyOf(1, 1)).num = 0
    /\ ValI(np_sum[2], 1) = <<1, 1>>
    /\ EntropyValue(EntropyOf(1, 2)).num = 2
    /\ EntropyValue(EntropyOf(1, 2)).den = 2

(***************************************************************************)
(* Properties of the reference of a site                                   *)
(***************************************************************************)
\* the consensus of the intact reads of the site and its anchors
TheConsensus == consensus_sequence(dict_int[1])

ConsensusAnchors == _lineage_ngs_define(TheConsensus, proto)

\* both anchors of a are there, not empty, and the right one first occurs
\* in sq after the first occurrence of the left one
AnchorsInOrder(sq, a) ==
    /\ a.found
    /\ a.lt_seq /= <<>>
    /\ a.rt_seq /= <<>>
    /\ PyFind(sq, a.rt_seq) > PyFind(sq, a.lt_seq)

\* the histogram of the reads of both sets called against reference sq with
\* anchors a
HistAgainst(sq, a) ==
    Histogram(MutList(
        [j \in 1..(Len(dict_ind[1]) + Len(dict_int[1])) |->
            _lineage_ngs_mutations(sq, SiteReads[j], a)]))

\* C22: the reads of both sets of a site are called against the consensus
\* of its intact reads with the anchors of the consensus, or, when these
\* anchors are missing or empty or the right one does not first occur after
\* the left one, against the genomic sequence of the site with the anchors
\* of the genomic sequence
C22_ConsensusOrGenomic ==
    Processed =>
        /\ AnchorsInOrder(TheConsensus, ConsensusAnchors) =>
              /\ TheRef = [seq_c |-> TheConsensus, a |-> ConsensusAnchors]
              /\ TheHist = HistAgainst(TheConsensus, ConsensusAnchors)
        /\ ~AnchorsInOrder(TheConsensus, ConsensusAnchors) =>
              /\ TheRef = [seq_c |-> keys[1].seq,
                           a |-> _lineage_ngs_define(keys[1].seq, proto)]
              /\ TheHist = HistAgainst(keys[1].seq,
                                       _lineage_ngs_define(keys[1].seq, proto))

\* the consensus has its anchors, the right one first occurs before the
\* left one, and the mutated read is called against the genomic sequence
C22_Witness ==
    /\ Processed
    /\ dict_int[1] = <<RightFirst>>
    /\ dict_ind[1] = <<Genomic>>
    /\ ConsensusAnchors.found
    /\ PyFind(TheConsensus, ConsensusAnchors.rt_seq) = 0
    /\ TheRef.seq_c = Genomic
    /\ TheHist = {<<MutString(<<"T">>, Dash, Dash, Dash), 1>>}

(***************************************************************************)
(* Properties of the rows of the tables saved by lineage_ngs_np2sum        *)
(***************************************************************************)
\* the strings of site j in table t run from the greatest to the smallest,
\* the empty cells after them
Descending(t, j) ==
    \A r \in 2..Len(t) : \A q \in 2..Len(t) :
        (r < q /\ t[q][2 * j - 1] /= "") =>
            /\ t[r][2 * j - 1] /= ""
            /\ StrRank(t[r][2 * j - 1]) > StrRank(t[q][2 * j - 1])

\* C23: the saved tables have the same rows and sites, every row of a site
\* holds the same string in all of them, the strings of a site run from
\* the greatest to the smallest, and with the same keys in the input tables
\* the sites are in the same order; so the counts that
\* lineage_ngs_aggregate takes from a later sample stand in the row of
\* their string
C23_RowsLineUp ==
    Summed =>
        /\ \A i \in DOMAIN np_sum :
              /\ Len(np_sum[i]) = Len(np_sum[1])
              /\ Sites(np_sum[i]) = Sites(np_sum[1])
              /\ Aligned(np_list) => np_sum[i][1] = np_sum[1][1]
              /\ \A j \in 1..Sites(np_sum[1]) :
                    /\ Descending(np_sum[i], j)
                    /\ \A r \in 2..Len(np_sum[1]) :
                          np_sum[i][r][2 * j - 1] = np_sum[1][r][2 * j - 1]
        /\ pc = "aggregated" =>
              \A i \in DOMAIN np_sum : \A j \in 1..Sites(np_sum[1]) :
                  \A r \in 2..Len(np_sum[1]) :
                      LET c == 2 + (j - 1) * (Len(np_sum) + 1)
                      IN  /\ summary_np.table[r][c] = np_sum[i][r][2 * j - 1]
                          /\ summary_np.table[r][c + i] = np_sum[i][r][2 * j]

\* two samples whose greatest counts belong to different strings, saved and
\* aggregated with the same string in each row
C23_Witness ==
    /\ pc = "aggregated"
    /\ Len(np_list) = 2
    /\ OwnEntries(np_list[1], 1) = {<<MutOrder[1], MaxCount>>}
    /\ OwnEntries(np_list[2], 1) = {<<MutOrder[2], 1>>}
    /\ np_sum[1][2][1] = MutOrder[2] /\ np_sum[1][2][2] = CountStr(0)
    /\ np_sum[2][2][1] = MutOrder[2] /\ np_sum[2][2][2] = CountStr(1)
    /\ np_sum[1][3][1] = MutOrder[1] /\ np_sum[2][3][1] = MutOrder[1]
    /\ summary_np.table[3][3] = CountStr(MaxCount)
    /\ summary_np.table[3][4] = CountStr(0)


(***************************************************************************)
(* C24: the deletion call                                                  *)
(***************************************************************************)
DeletionEmitted == pc = "called" /\ Returned(call) /\ call.deletion /= Dash

\* C24 as stated: every deletion call emitted by _lineage_ngs_mutations reads
\* <deleted_seq>*<left_dist>*<right_dist>, the deleted sequence (written
\* reverse-complemented when the orientation flag is set) being the
\* non-empty stretch of the inter-anchor reference region from the left
\* boundary to the right boundary inclusive, and left_dist + right_dist
\* being its length; when the left-to-right scan stops past the
\* right-to-left scan the right boundary is the left one and the sequence
\* is the single reference base at the left boundary.
C24_DeletionForm ==
    DeletionEmitted =>
        LET cropped_e == Cropped(seq_e, call.lt_e, anchors.lt_seq, call.rt_e)
            cut_i == anchors.lt_len - Len(anchors.lt_seq)
            left_dist == cut_i - call.lt_del
            right_dist == call.rt_del + 1 - cut_i
        IN  /\ call.deletion = RcIf(anchors.rc, call.delet) \o <<"*">>
                                \o IntToStr(left_dist) \o <<"*">> \o IntToStr(right_dist)
            /\ call.delet /= <<>>
            /\ 0 <= call.lt_del
            /\ call.lt_del <= call.rt_del
            /\ call.rt_del < Len(cropped_e)
            /\ call.delet = SubSeq(cropped_e, call.lt_del + 1, call.rt_del + 1)
            /\ left_dist + right_dist = Len(call.delet)
            /\ LtScan(cropped_e, call.cropped).lt_del > RtScan(cropped_e, call.cropped)
                  => /\ call.rt_del = call.lt_del
                     /\ call.delet = <<cropped_e[call.lt_del + 1]>>


\* C24: every deletion call that _lineage_ngs_mutations returns with a
\* non-empty cropped candidate region (the calls lineage_ngs_dict2csv
\* keeps) reads <deleted_seq>*<left_dist>*<right_dist>, the deleted
\* sequence (written reverse-complemented when the orientation flag is
\* set) being the non-empty stretch of the inter-anchor reference region
\* from the left boundary to the right boundary inclusive, and
\* left_dist + right_dist being its length; when the left-to-right scan
\* stops past the right-to-left scan the right boundary is the left one
\* and the sequence is the single reference base at the left boundary.
C24_KeptDeletionForm ==
    (DeletionEmitted /\ call.cropped /= <<>>) =>
        LET cropped_e == Cropped(seq_e, call.lt_e, anchors.lt_seq, call.rt_e)
            cut_i == anchors.lt_len - Len(anchors.lt_seq)
            left_dist == cut_i - call.lt_del
            right_dist == call.rt_del + 1 - cut_i
        IN  /\ call.deletion = RcIf(anchors.rc, call.delet) \o <<"*">>
                                \o IntToStr(left_dist) \o <<"*">> \o IntToStr(right_dist)
            /\ call.delet /= <<>>
            /\ 0 <= call.lt_del
            /\ call.lt_del <= call.rt_del
            /\ call.rt_del < Len(cropped_e)
            /\ call.delet = SubSeq(cropped_e, call.lt_del + 1, call.rt_del + 1)
            /\ left_dist + right_dist = Len(call.delet)
            /\ LtScan(cropped_e, call.cropped).lt_del > RtScan(cropped_e, call.cropped)
                  => /\ call.rt_del = call.lt_del
                     /\ call.delet = <<cropped_e[call.lt_del + 1]>>

\* a kept deletion call on a reverse-complement reference, the
\* left-to-right scan having stopped past the right-to-left scan
C24_Witness ==
    /\ DeletionEmitted
    /\ call.cropped /= <<>>
    /\ edit.kind = "del"
    /\ anchors.rc
    /\ LET cropped_e == Cropped(seq_e, call.lt_e, anchors.lt_seq, call.rt_e)
       IN  LtScan(cropped_e, call.cropped).lt_del > RtScan(cropped_e, call.cropped)
    /\ Len(call.delet) = 1


(***************************************************************************)
(* C25: the buckets of lineage_ngs_mutdist                                 *)
(***************************************************************************)
Categorized == pc = "categorized"

\* the call a text of the table was written from
Meaning(s) == CHOOSE c \in DistCalls : CallText(c) = s

\* the count a text of the table was written from
Counted(s) == CHOOSE n \in 0..(MaxCount + 1) : NatToStr(n) = s

\* the rows of site i that hold a call
DataRows(t, i) == {r \in 2..Len(t) : t[r][2 * i - 1] /= <<>>}

RECURSIVE RowTotal(_, _, _)
\* the counts of the rows R of site i, added up
RowTotal(t, i, R) ==
    IF R = {} THEN 0
    ELSE LET r == CHOOSE q \in R : TRUE
         IN  Counted(t[r][2 * i]) + RowTotal(t, i, R \ {r})

\* the primary bucket a call belongs to by its name, 0 for an insertion
\* of no base
NamedBucket(c) ==
    CASE c.kind = "intact" -> 1
      [] c.kind = "snv" -> 2
      [] c.kind = "ins" -> (IF Len(c.seq) = 1 THEN 3 ELSE IF Len(c.seq) > 1 THEN 4 ELSE 0)
      [] OTHER -> (IF Len(c.seq) <= 5 THEN 5 ELSE 6)

\* bucket b of site i in np_out
Out(i, b) == np_out[b + 1][i + 1]

\* the deletion rows of site i of primary bucket b that may count as
\* PAM-distal, and those that may count as PAM-proximal
MayBeDistal(t, i, b) ==
    {r \in DataRows(t, i) :
        LET c == Meaning(t[r][2 * i - 1])
        IN  c.kind = "del" /\ NamedBucket(c) = b /\ c.lt > c.rt /\ c.lt > -5 /\ c.rt > -5}

MayBeProximal(t, i, b) ==
    {r \in DataRows(t, i) :
        LET c == Meaning(t[r][2 * i - 1])
        IN  c.kind = "del" /\ NamedBucket(c) = b /\ c.lt < c.rt /\ c.lt > -5 /\ c.rt > -5}

\* every row of site i adds its count to one primary bucket, the one of
\* its name
Partitioned(t, i) ==
    \E f \in [DataRows(t, i) -> 1..6] :
        /\ \A r \in DataRows(t, i) :
              NamedBucket(Meaning(t[r][2 * i - 1])) \in {0, f[r]}
        /\ \A b \in 1..6 :
              Out(i, b) = RowTotal(t, i, {r \in DataRows(t, i) : f[r] = b})

\* C25: in lineage_ngs_mutdist, for every site each row adds its count to
\* exactly one of the six primary buckets (intact, SNV, insertion of 1,
\* insertion of more than 1, deletion of at most 5, deletion of more than
\* 5), so that their sum is the site's total count; for each deletion size
\* class the distal plus the proximal count is at most the class's count,
\* a deletion counting as distal only with left_dist > right_dist and as
\* proximal only with left_dist < right_dist, both distances being
\* greater than -5.
C25_BucketsPartition ==
    Categorized =>
        \A i \in 1..(NCols(tar_list) \div 2) :
            /\ Partitioned(tar_list, i)
            /\ Out(i, 1) + Out(i, 2) + Out(i, 3) + Out(i, 4) + Out(i, 5) + Out(i, 6)
                  = RowTotal(tar_list, i, DataRows(tar_list, i))
            /\ Out(i, 7) + Out(i, 8) <= Out(i, 5)
            /\ Out(i, 9) + Out(i, 10) <= Out(i, 6)
            /\ Out(i, 7) <= RowTotal(tar_list, i, MayBeDistal(tar_list, i, 5))
            /\ Out(i, 8) <= RowTotal(tar_list, i, MayBeProximal(tar_list, i, 5))
            /\ Out(i, 9) <= RowTotal(tar_list, i, MayBeDistal(tar_list, i, 6))
            /\ Out(i, 10) <= RowTotal(tar_list, i, MayBeProximal(tar_list, i, 6))

\* two sites: the first with a short deletion far from the cut site and a
\* short distal deletion, the second with an insertion of one base
C25_Witness ==
    /\ Categorized
    /\ NCols(tar_list) \div 2 = 2
    /\ Out(1, 5) > Out(1, 7)
    /\ Out(1, 7) > 0
    /\ Out(1, 8) = 0
    /\ MayBeDistal(tar_list, 1, 5) /= DataRows(tar_list, 1)
    /\ \E r \in DataRows(tar_list, 1) :
          LET c == Meaning(tar_list[r][1])
          IN  c.kind = "del" /\ (c.lt <= -5 \/ c.rt <= -5)
    /\ Out(2, 3) > 0

====
